---------------------------- MODULE Spec2Model ----------------------------
(***************************************************************************)
(* A model of the document-extraction service: the two recovery parsers    *)
(* of the AI response (_robust_json_parse of DynamicQueryService and of    *)
(* OpenRouterClient), the two orchestrators that call them                 *)
(* (process_dynamic_query, extract_data_single_stage), the text extractor  *)
(* of DocumentProcessor, and the upload endpoints in front of them.        *)
(*                                                                         *)
(* Text is a sequence of atoms.  An atom is one character ("{", ":", a     *)
(* quote, a space, a newline, a digit), or a run of characters that every  *)
(* regular expression and the JSON scanner of the code treat alike: a      *)
(* word of letters ("Spurs"), the three-backtick fence (written "~~~",     *)
(* since a backtick cannot occur in a TLA+ string), and DEEP, a run of     *)
(* DeepNest opening brackets.                                              *)
(***************************************************************************)
EXTENDS Integers, Sequences, FiniteSets, TLC

---------------------------------------------------------------------------
(* Atoms *)

LB == "{"
RB == "}"
LK == "["
RK == "]"
COLON == ":"
COMMA == ","
QUOTE == "\""
SP == " "
NL == "\n"
DOT == "."
FENCE == "~~~"
DEEP == "[[[..."

\* The number of "[" characters the atom DEEP stands for.
DeepNest == 100000

\* CPython's recursion limit, which json.loads' scanner checks on every
\* nested object and array (sys.getrecursionlimit(), 1000 by default).
RecursionLimit == 1000

\* content[:500] of the terminal fallback of both parsers.
PreviewLen == 500

Digits == {"1", "2"}
Literals == {"true", "false", "null"}

IsWs(a) == a \in {SP, NL}
IsDigit(a) == a \in Digits
\* re.IGNORECASE: "json" and "JSON", "result" and "Result".
IsJsonWord(a) == a \in {"json", "JSON"}
IsResultWord(a) == a \in {"result", "Result"}

\* len() of the characters an atom stands for.
CharLen(a) == IF a = FENCE THEN 3 ELSE IF a = DEEP THEN DeepNest ELSE Len(a)

RECURSIVE TextLen(_)
TextLen(c) == IF c = <<>> THEN 0 ELSE CharLen(Head(c)) + TextLen(Tail(c))

\* The characters of a text as one string.
RECURSIVE TextOf(_)
TextOf(c) == IF c = <<>> THEN "" ELSE Head(c) \o TextOf(Tail(c))

Min(a, b) == IF a < b THEN a ELSE b

\* The names of settings.default_templates.
DefaultTemplates ==
    {"emails", "contacts", "invoices", "resumes", "contracts", "medical",
     "financial"}

\* A local variable of the code: v is computed once, and Body reads it.
With(v, Body(_)) == Body(v)

\* The first index >= i of c that holds no whitespace, Len(c)+1 if none.
RECURSIVE SkipWs(_, _)
SkipWs(c, i) == IF i <= Len(c) /\ IsWs(c[i]) THEN SkipWs(c, i + 1) ELSE i

\* The last index <= i of c that holds no whitespace, 0 if none.
RECURSIVE SkipWsBack(_, _)
SkipWsBack(c, i) == IF i >= 1 /\ IsWs(c[i]) THEN SkipWsBack(c, i - 1) ELSE i

\* str.strip()
Strip(c) == SubSeq(c, SkipWs(c, 1), SkipWsBack(c, Len(c)))

\* The first index >= i of c that holds atom a, 0 if none.
RECURSIVE IndexOf(_, _, _)
IndexOf(c, a, i) ==
    IF i > Len(c) THEN 0
    ELSE IF c[i] = a THEN i
    ELSE IndexOf(c, a, i + 1)

---------------------------------------------------------------------------
(* JSON values: a node is [t, s, kids].  t is the type, s the text of a    *)
(* scalar (or the key of an object member), kids the elements of an array, *)
(* the members of an object, or the value of a member.                     *)

JStr(s) == [t |-> "str", s |-> s, kids |-> <<>>]
JNum(s) == [t |-> "num", s |-> s, kids |-> <<>>]
JLit(s) == [t |-> "lit", s |-> s, kids |-> <<>>]
JArr(elems) == [t |-> "arr", s |-> "", kids |-> elems]
JObj(members) == [t |-> "obj", s |-> "", kids |-> members]
JKV(k, v) == [t |-> "kv", s |-> k, kids |-> <<v>>]

\* isinstance(v, dict)
IsDict(v) == v.t = "obj"

Keys(d) == {d.kids[i].s : i \in 1..Len(d.kids)}
HasKey(d, k) == k \in Keys(d)

\* d[k] = v on a dict's members: a present key keeps its place.
DictSet(members, k, v) ==
    IF \E i \in 1..Len(members) : members[i].s = k
    THEN [i \in 1..Len(members) |->
             IF members[i].s = k THEN JKV(k, v) ELSE members[i]]
    ELSE Append(members, JKV(k, v))

\* d[k] of a dict that has the key.
DictGet(d, k) ==
    LET i == CHOOSE j \in 1..Len(d.kids) : d.kids[j].s = k
    IN d.kids[i].kids[1]

\* == of two JSON values: dicts are equal whatever the order of their keys.
RECURSIVE JEq(_, _)
JEq(a, b) ==
    IF a.t # b.t THEN FALSE
    ELSE IF a.t = "obj"
    THEN /\ Keys(a) = Keys(b)
         /\ \A k \in Keys(a) : JEq(DictGet(a, k), DictGet(b, k))
    ELSE IF a.t = "arr"
    THEN /\ Len(a.kids) = Len(b.kids)
         /\ \A i \in 1..Len(a.kids) : JEq(a.kids[i], b.kids[i])
    ELSE a.s = b.s

---------------------------------------------------------------------------
(* json.loads: the outcome is [st, v, i]: st is "ok" (v is the value, i    *)
(* the index after it), "err" (json.JSONDecodeError) or "rec"              *)
(* (RecursionError).                                                       *)

Ok(v, i) == [st |-> "ok", v |-> v, i |-> i]
Fail(st) == [st |-> st, v |-> JLit("null"), i |-> 0]

\* A string: from the quote at i to the next quote; a control character
\* (a newline) inside it is an error (strict mode).
ScanString(c, i) ==
    With(IndexOf(c, QUOTE, i + 1), LAMBDA q :
    IF q = 0 THEN Fail("err")
    ELSE IF \E j \in (i + 1)..(q - 1) : c[j] = NL THEN Fail("err")
    ELSE Ok(JStr(TextOf(SubSeq(c, i + 1, q - 1))), q + 1))

RECURSIVE DigitsEnd(_, _)
DigitsEnd(c, i) ==
    IF i <= Len(c) /\ IsDigit(c[i]) THEN DigitsEnd(c, i + 1) ELSE i

\* A number: digits, then optionally a dot and digits.
ScanNumber(c, i) ==
    With(DigitsEnd(c, i), LAMBDA e :
    With(IF e + 1 <= Len(c) /\ c[e] = DOT /\ IsDigit(c[e + 1])
         THEN DigitsEnd(c, e + 1) ELSE e, LAMBDA f :
    Ok(JNum(TextOf(SubSeq(c, i, f - 1))), f)))

RECURSIVE ScanValue(_, _, _)
RECURSIVE ScanMembers(_, _, _, _)
RECURSIVE ScanElems(_, _, _, _)

\* scan_once at index i, d levels deep.
ScanValue(c, i, d) ==
    IF i > Len(c) THEN Fail("err")
    ELSE IF c[i] = QUOTE THEN ScanString(c, i)
    ELSE IF c[i] = LB
    THEN IF d + 1 > RecursionLimit THEN Fail("rec")
         ELSE LET j == SkipWs(c, i + 1)
              IN IF j <= Len(c) /\ c[j] = RB THEN Ok(JObj(<<>>), j + 1)
                 ELSE ScanMembers(c, j, d + 1, <<>>)
    ELSE IF c[i] = LK
    THEN IF d + 1 > RecursionLimit THEN Fail("rec")
         ELSE LET j == SkipWs(c, i + 1)
              IN IF j <= Len(c) /\ c[j] = RK THEN Ok(JArr(<<>>), j + 1)
                 ELSE ScanElems(c, j, d + 1, <<>>)
    ELSE IF c[i] = DEEP
    THEN IF d + DeepNest > RecursionLimit THEN Fail("rec") ELSE Fail("err")
    ELSE IF IsDigit(c[i]) THEN ScanNumber(c, i)
    ELSE IF c[i] \in Literals THEN Ok(JLit(c[i]), i + 1)
    ELSE Fail("err")

\* The members of an object from index j on: "key" : value , ... }
ScanMembers(c, j, d, acc) ==
    IF j > Len(c) \/ c[j] # QUOTE THEN Fail("err")
    ELSE With(ScanString(c, j), LAMBDA key :
         IF key.st # "ok" THEN key
         ELSE With(SkipWs(c, key.i), LAMBDA k :
              IF k > Len(c) \/ c[k] # COLON THEN Fail("err")
              ELSE With(ScanValue(c, SkipWs(c, k + 1), d), LAMBDA val :
                   IF val.st # "ok" THEN val
                   ELSE With(SkipWs(c, val.i), LAMBDA m :
                        IF m > Len(c) THEN Fail("err")
                        ELSE IF c[m] = RB
                        THEN Ok(JObj(DictSet(acc, key.v.s, val.v)), m + 1)
                        ELSE IF c[m] = COMMA
                        THEN ScanMembers(c, SkipWs(c, m + 1), d,
                                         DictSet(acc, key.v.s, val.v))
                        ELSE Fail("err")))))

\* The elements of an array from index j on: value , ... ]
ScanElems(c, j, d, acc) ==
    With(ScanValue(c, j, d), LAMBDA val :
    IF val.st # "ok" THEN val
    ELSE With(SkipWs(c, val.i), LAMBDA m :
         IF m > Len(c) THEN Fail("err")
         ELSE IF c[m] = RK THEN Ok(JArr(Append(acc, val.v)), m + 1)
         ELSE IF c[m] = COMMA
         THEN ScanElems(c, SkipWs(c, m + 1), d, Append(acc, val.v))
         ELSE Fail("err")))

\* json.loads(c): one value between optional whitespace, and nothing else.
JsonLoads(c) ==
    With(ScanValue(c, SkipWs(c, 1), 0), LAMBDA r :
    IF r.st # "ok" THEN r
    ELSE IF SkipWs(c, r.i) = Len(c) + 1 THEN r
    ELSE Fail("err"))

---------------------------------------------------------------------------
(* The regular expressions the two parsers share.  A match is              *)
(* [found, g, e]: g the text of the group, e the index of the match's last *)
(* atom.                                                                   *)

Match(g, e) == [found |-> TRUE, g |-> g, e |-> e]
NoMatch == [found |-> FALSE, g |-> <<>>, e |-> 0]

\* The first index e >= i with c[e] = "}" followed by optional whitespace
\* and a fence: the end of the lazy group (\{.*?\}) before \s*FENCE.
RECURSIVE ClosingBrace(_, _)
ClosingBrace(c, i) ==
    IF i > Len(c) THEN 0
    ELSE IF c[i] = RB /\ With(SkipWs(c, i + 1), LAMBDA f :
                              f <= Len(c) /\ c[f] = FENCE)
    THEN i
    ELSE ClosingBrace(c, i + 1)

\* FENCE(?:json)?\s*(\{.*?\})\s*FENCE matched with its first fence at p.
FencedObjectAt(c, p) ==
    With(SkipWs(c, IF p + 1 <= Len(c) /\ IsJsonWord(c[p + 1])
                   THEN p + 2 ELSE p + 1), LAMBDA b :
    With(IF b <= Len(c) /\ c[b] = LB THEN ClosingBrace(c, b + 1) ELSE 0,
         LAMBDA e :
    IF e = 0 THEN NoMatch
    ELSE Match(SubSeq(c, b, e), SkipWs(c, e + 1))))

\* re.search of that pattern (re.DOTALL | re.IGNORECASE) from index p on:
\* the leftmost match.
RECURSIVE FencedObject(_, _)
FencedObject(c, p) ==
    IF p > Len(c) THEN NoMatch
    ELSE IF c[p] # FENCE THEN FencedObject(c, p + 1)
    ELSE With(FencedObjectAt(c, p), LAMBDA m :
              IF m.found THEN m ELSE FencedObject(c, p + 1))

\* \{[^{}]*(?:\{[^{}]*\}[^{}]*)*\} from the "{" before index j: the index of
\* the closing brace, 0 if the pattern does not match there.  inner: inside
\* a nested pair of braces, where a further "{" cannot match.
RECURSIVE BraceScan(_, _, _)
BraceScan(c, j, inner) ==
    IF j > Len(c) THEN 0
    ELSE IF c[j] = LB THEN (IF inner THEN 0 ELSE BraceScan(c, j + 1, TRUE))
    ELSE IF c[j] = RB THEN (IF inner THEN BraceScan(c, j + 1, FALSE) ELSE j)
    ELSE BraceScan(c, j + 1, inner)

\* re.findall of that pattern from index i on: the non-overlapping matches,
\* left to right.
RECURSIVE FindAllBraces(_, _)
FindAllBraces(c, i) ==
    IF i > Len(c) THEN <<>>
    ELSE IF c[i] # LB THEN FindAllBraces(c, i + 1)
    ELSE With(BraceScan(c, i + 1, FALSE), LAMBDA e :
              IF e = 0 THEN FindAllBraces(c, i + 1)
              ELSE <<SubSeq(c, i, e)>> \o FindAllBraces(c, e + 1))

\* x put into a list sorted by falling length, behind the texts that are
\* as long (the sort is stable).
RECURSIVE InsertByLen(_, _)
InsertByLen(x, sorted) ==
    IF sorted = <<>> THEN <<x>>
    ELSE IF TextLen(Head(sorted)) >= TextLen(x)
    THEN <<Head(sorted)>> \o InsertByLen(x, Tail(sorted))
    ELSE <<x>> \o sorted

\* sorted(texts, key=len, reverse=True)
RECURSIVE SortedByLen(_)
SortedByLen(texts) ==
    IF texts = <<>> THEN <<>>
    ELSE InsertByLen(texts[Len(texts)],
                     SortedByLen(SubSeq(texts, 1, Len(texts) - 1)))

\* The first index >= i that holds a "[" character.
RECURSIVE IndexOfBracket(_, _)
IndexOfBracket(c, i) ==
    IF i > Len(c) THEN 0
    ELSE IF c[i] \in {LK, DEEP} THEN i
    ELSE IndexOfBracket(c, i + 1)

\* \[(.*?)\] matched with its "[" at p: up to the first "]" behind it.  Of
\* the atom DEEP the pattern's "[" takes the first character, and the rest
\* of the run, still deeper than the recursion limit, opens the group.
BracketAt(c, p) ==
    With(IndexOf(c, RK, p + 1), LAMBDA e :
    IF e = 0 THEN NoMatch
    ELSE Match((IF c[p] = DEEP THEN <<DEEP>> ELSE <<>>)
                   \o SubSeq(c, p + 1, e - 1), e))

\* text.split(',')
RECURSIVE SplitComma(_)
SplitComma(text) ==
    With(IndexOf(text, COMMA, 1), LAMBDA k :
    IF k = 0 THEN <<text>>
    ELSE <<SubSeq(text, 1, k - 1)>>
             \o SplitComma(SubSeq(text, k + 1, Len(text))))

\* text.strip('"')
RECURSIVE StripQuotes(_)
StripQuotes(text) ==
    IF text # <<>> /\ Head(text) = QUOTE THEN StripQuotes(Tail(text))
    ELSE IF text # <<>> /\ text[Len(text)] = QUOTE
    THEN StripQuotes(SubSeq(text, 1, Len(text) - 1))
    ELSE text

\* content[:n], cut at the boundary of an atom.
RECURSIVE Take(_, _)
Take(c, n) ==
    IF c = <<>> \/ CharLen(Head(c)) > n THEN <<>>
    ELSE <<Head(c)>> \o Take(Tail(c), n - CharLen(Head(c)))

---------------------------------------------------------------------------
(* What a strategy, or a parser, yields: [k, v] with k = "ret" (v is       *)
(* returned), "none" (the next strategy is tried) or "raise" (an exception *)
(* that is no JSONDecodeError leaves the parser).                          *)

Ret(v) == [k |-> "ret", v |-> v]
None == [k |-> "none", v |-> JLit("null")]
Raise == [k |-> "raise", v |-> JLit("null")]

---------------------------------------------------------------------------
(* DynamicQueryService._robust_json_parse, strategy by strategy.           *)

\* C4, mutant: strategy 1 without the wrapping of a value that is no dict.
DqsStrategy1Unwrapped(c) ==
    With(JsonLoads(Strip(c)), LAMBDA r :
    IF r.st = "rec" THEN Raise
    ELSE IF r.st = "err" THEN None
    ELSE Ret(r.v))

\* Strategy 1: json.loads(content.strip()); a value that is no dict is
\* wrapped as {"data": value}.
DqsStrategy1(c) ==
    With(JsonLoads(Strip(c)), LAMBDA r :
    IF r.st = "rec" THEN Raise
    ELSE IF r.st = "err" THEN None
    ELSE IF IsDict(r.v) THEN Ret(r.v)
    ELSE Ret(JObj(<<JKV("data", r.v)>>)))

\* Strategy 2: the object of the first fenced code block.
DqsStrategy2(c) ==
    With(FencedObject(c, 1), LAMBDA m :
    IF ~m.found THEN None
    ELSE With(JsonLoads(m.g), LAMBDA r :
         IF r.st = "rec" THEN Raise
         ELSE IF r.st = "err" THEN None
         ELSE Ret(r.v)))

\* The loop of strategy 3 over the candidates that are left: the first that
\* parses to a non-empty dict.
RECURSIVE DqsFirstObject(_)
DqsFirstObject(cands) ==
    IF cands = <<>> THEN None
    ELSE With(JsonLoads(Head(cands)), LAMBDA r :
         IF r.st = "rec" THEN Raise
         ELSE IF r.st = "ok" /\ IsDict(r.v) /\ Len(r.v.kids) > 0 THEN Ret(r.v)
         ELSE DqsFirstObject(Tail(cands)))

\* C6, mutant: strategy 3 with its pattern anchored at the start of the
\* text (re.match for re.findall).
DqsStrategy3Anchored(c) ==
    IF c # <<>> /\ c[1] = LB /\ BraceScan(c, 2, FALSE) # 0
    THEN DqsFirstObject(<<SubSeq(c, 1, BraceScan(c, 2, FALSE))>>)
    ELSE None

\* Strategy 3: the brace-delimited substrings, longest first.
DqsStrategy3(c) == DqsFirstObject(SortedByLen(FindAllBraces(c, 1)))

\* Strategy 4: the first bracketed array, wrapped as {"extracted_items": a}.
DqsStrategy4(c) ==
    With(IndexOfBracket(c, 1), LAMBDA p :
    With(IF p = 0 THEN NoMatch ELSE BracketAt(c, p), LAMBDA m :
    IF ~m.found THEN None
    ELSE With(JsonLoads(<<LK>> \o m.g \o <<RK>>), LAMBDA r :
         IF r.st = "rec" THEN Raise
         ELSE IF r.st = "err" THEN None
         ELSE Ret(JObj(<<JKV("extracted_items", r.v)>>)))))

\* kv_pattern matched with the key's opening quote at p:
\* "([^"]+)":\s*(?:\[(.*?)\]|"([^"]*)"|\{(.*?)\}|(\d+(?:\.\d+)?)).
\* [found, key, alt, g, e]: alt names the alternative that matched.
KvAt(c, p) ==
    LET no == [found |-> FALSE, key |-> "", alt |-> "", g |-> <<>>, e |-> 0]
        yes(q, alt, g, e) ==
            [found |-> TRUE, key |-> TextOf(SubSeq(c, p + 1, q - 1)),
             alt |-> alt, g |-> g, e |-> e]
        \* A group that runs from behind the opener at b to the first `close`.
        upTo(q, b, alt, close) ==
            With(IndexOf(c, close, b + 1), LAMBDA e :
                 IF e = 0 THEN no ELSE yes(q, alt, SubSeq(c, b + 1, e - 1), e))
    IN With(IndexOf(c, QUOTE, p + 1), LAMBDA q :
       With(SkipWs(c, q + 2), LAMBDA b :
       IF q = 0 \/ q = p + 1 \/ q + 1 > Len(c) \/ b > Len(c) THEN no
       ELSE IF c[q + 1] # COLON THEN no
       ELSE IF c[b] \in {LK, DEEP}
       THEN With(BracketAt(c, b), LAMBDA m :
                 IF m.found THEN yes(q, "array", m.g, m.e) ELSE no)
       ELSE IF c[b] = QUOTE THEN upTo(q, b, "string", QUOTE)
       ELSE IF c[b] = LB THEN upTo(q, b, "object", RB)
       ELSE IF IsDigit(c[b])
       THEN With(ScanNumber(c, b).i - 1, LAMBDA e :
                 yes(q, "number", SubSeq(c, b, e), e))
       ELSE no))

\* re.findall(kv_pattern, content, re.DOTALL) from index i on.
RECURSIVE FindAllKv(_, _)
FindAllKv(c, i) ==
    IF i > Len(c) THEN <<>>
    ELSE IF c[i] # QUOTE THEN FindAllKv(c, i + 1)
    ELSE With(KvAt(c, i), LAMBDA m :
              IF m.found THEN <<m>> \o FindAllKv(c, m.e + 1)
              ELSE FindAllKv(c, i + 1))

\* The items of the comma-split fallback that are left after stripping.
RECURSIVE DqsSplitItems(_)
DqsSplitItems(parts) ==
    IF parts = <<>> THEN <<>>
    ELSE With(StripQuotes(Strip(Head(parts))), LAMBDA item :
         (IF item = <<>> THEN <<>> ELSE <<JStr(TextOf(item))>>)
             \o DqsSplitItems(Tail(parts)))

\* The value strategy 5 stores for one match.  An empty array or object
\* group is falsy, and the (empty) string group is stored.
DqsKvValue(m) ==
    IF m.alt = "array" /\ m.g # <<>>
    THEN With(JsonLoads(<<LK>> \o m.g \o <<RK>>), LAMBDA r :
              IF r.st = "ok" THEN r.v
              ELSE JArr(DqsSplitItems(SplitComma(m.g))))
    ELSE IF m.alt = "object" /\ m.g # <<>>
    THEN With(JsonLoads(<<LB>> \o m.g \o <<RB>>), LAMBDA r :
              IF r.st = "ok" THEN r.v
              ELSE JObj(<<JKV("value", JStr(TextOf(Strip(m.g))))>>))
    ELSE IF m.alt = "number" THEN JNum(TextOf(m.g))
    ELSE IF m.alt = "string" THEN JStr(TextOf(m.g))
    ELSE JStr("")

RECURSIVE DqsKvDict(_, _)
DqsKvDict(matches, acc) ==
    IF matches = <<>> THEN acc
    ELSE DqsKvDict(Tail(matches),
                   DictSet(acc, Head(matches).key, DqsKvValue(Head(matches))))

\* Strategy 5: a dict rebuilt from the "key": value pairs of the text.
DqsStrategy5(c) ==
    With(FindAllKv(c, 1), LAMBDA matches :
    IF matches = <<>> THEN None
    ELSE Ret(JObj(DqsKvDict(matches, <<>>))))

\* Strategy 6: the terminal error mapping.
DqsFallback(c) ==
    JObj(<<JKV("error",
               JStr("Could not parse AI response into valid JSON structure")),
           JKV("raw_response", JStr(TextOf(Take(c, PreviewLen))))>>)

DqsStrategy(n, c) ==
    CASE n = 1 -> DqsStrategy1(c)
      [] n = 2 -> DqsStrategy2(c)
      [] n = 3 -> DqsStrategy3(c)
      [] n = 4 -> DqsStrategy4(c)
      [] n = 5 -> DqsStrategy5(c)
      [] OTHER -> Ret(DqsFallback(c))

\* C3, mutant: strategy 3 (the brace scan) tried before strategy 2.
DqsOrderSwapped == <<1, 3, 2, 4, 5, 6>>

\* The order in which the body of _robust_json_parse tries its strategies.
DqsOrder == <<1, 2, 3, 4, 5, 6>>

\* The parser from its n-th step on.
RECURSIVE DqsParseFrom(_, _)
DqsParseFrom(c, n) ==
    With(DqsStrategy(DqsOrder[n], c), LAMBDA r :
    IF r.k = "none" /\ n < Len(DqsOrder) THEN DqsParseFrom(c, n + 1) ELSE r)

DqsParse(c) == DqsParseFrom(c, 1)

---------------------------------------------------------------------------
(* OpenRouterClient._robust_json_parse, strategy by strategy.              *)

\* Strategy 1: json.loads(content.strip()), returned as it is.
OrcStrategy1(c) ==
    With(JsonLoads(Strip(c)), LAMBDA r :
    IF r.st = "rec" THEN Raise
    ELSE IF r.st = "err" THEN None
    ELSE Ret(r.v))

\* Strategy 2: the object of the first fenced code block.
OrcStrategy2(c) ==
    With(FencedObject(c, 1), LAMBDA m :
    IF ~m.found THEN None
    ELSE With(JsonLoads(m.g), LAMBDA r :
         IF r.st = "rec" THEN Raise
         ELSE IF r.st = "err" THEN None
         ELSE Ret(r.v)))

\* The loop of strategy 3 over the candidates that are left: the first that
\* parses.
RECURSIVE OrcFirstObject(_)
OrcFirstObject(cands) ==
    IF cands = <<>> THEN None
    ELSE With(JsonLoads(Head(cands)), LAMBDA r :
         IF r.st = "rec" THEN Raise
         ELSE IF r.st = "ok" THEN Ret(r.v)
         ELSE OrcFirstObject(Tail(cands)))

\* Strategy 3: the brace-delimited substrings, longest first.
OrcStrategy3(c) == OrcFirstObject(SortedByLen(FindAllBraces(c, 1)))

\* The first index >= i where a fence is followed by the word json.
RECURSIVE IndexOfJsonFence(_, _)
IndexOfJsonFence(c, i) ==
    IF i + 1 > Len(c) THEN 0
    ELSE IF c[i] = FENCE /\ IsJsonWord(c[i + 1]) THEN i
    ELSE IndexOfJsonFence(c, i + 1)

\* The first index >= i where the word json (word = "json") or result is
\* followed by a colon.
RECURSIVE IndexOfLabel(_, _, _)
IndexOfLabel(c, word, i) ==
    IF i + 1 > Len(c) THEN 0
    ELSE IF /\ c[i + 1] = COLON
            /\ IF word = "json" THEN IsJsonWord(c[i]) ELSE IsResultWord(c[i])
    THEN i
    ELSE IndexOfLabel(c, word, i + 1)

\* The first index >= i where a blank line (\n\n) starts, Len(c)+1 if none.
RECURSIVE BlankLineOrEnd(_, _)
BlankLineOrEnd(c, i) ==
    IF i > Len(c) THEN Len(c) + 1
    ELSE IF i + 1 <= Len(c) /\ c[i] = NL /\ c[i + 1] = NL THEN i
    ELSE BlankLineOrEnd(c, i + 1)

\* The group of the n-th marker pattern of strategy 4:
\*   1  FENCEjson\s*(.*?)\s*FENCE       2  FENCE\s*(.*?)\s*FENCE
\*   3  JSON:\s*(.*?)(?:\n\n|\Z)        4  Result:\s*(.*?)(?:\n\n|\Z)
OrcMarker(c, n) ==
    IF n \in {1, 2}
    THEN With(IF n = 1 THEN IndexOfJsonFence(c, 1) ELSE IndexOf(c, FENCE, 1),
              LAMBDA open :
         With(IF n = 1 THEN open + 2 ELSE open + 1, LAMBDA from :
         With(IndexOf(c, FENCE, from), LAMBDA close :
         IF open = 0 \/ close = 0 THEN NoMatch
         ELSE Match(SubSeq(c, from, close - 1), close))))
    ELSE With(IndexOfLabel(c, IF n = 3 THEN "json" ELSE "result", 1),
              LAMBDA label :
         With(SkipWs(c, label + 2), LAMBDA start :
         With(BlankLineOrEnd(c, start), LAMBDA end :
         IF label = 0 THEN NoMatch
         ELSE Match(SubSeq(c, start, end - 1), end))))

\* The loop of strategy 4 from the n-th marker on.
RECURSIVE OrcMarkersFrom(_, _)
OrcMarkersFrom(c, n) ==
    IF n > 4 THEN None
    ELSE With(OrcMarker(c, n), LAMBDA m :
         IF ~m.found THEN OrcMarkersFrom(c, n + 1)
         ELSE With(JsonLoads(Strip(m.g)), LAMBDA r :
              IF r.st = "rec" THEN Raise
              ELSE IF r.st = "ok" THEN Ret(r.v)
              ELSE OrcMarkersFrom(c, n + 1)))

\* Strategy 4: JSON between specific markers.
OrcStrategy4(c) == OrcMarkersFrom(c, 1)

\* field_pattern matched with the key's opening quote at p:
\* "([^"]+)":\s*\[(.*?)\]
FieldAt(c, p) ==
    LET no == [found |-> FALSE, key |-> "", g |-> <<>>, e |-> 0]
    IN With(IndexOf(c, QUOTE, p + 1), LAMBDA q :
       With(SkipWs(c, q + 2), LAMBDA b :
       IF q = 0 \/ q = p + 1 \/ q + 1 > Len(c) \/ b > Len(c) THEN no
       ELSE IF c[q + 1] # COLON \/ c[b] \notin {LK, DEEP} THEN no
       ELSE With(BracketAt(c, b), LAMBDA m :
            IF ~m.found THEN no
            ELSE [found |-> TRUE, key |-> TextOf(SubSeq(c, p + 1, q - 1)),
                  g |-> m.g, e |-> m.e])))

\* re.findall(field_pattern, content, re.DOTALL) from index i on.
RECURSIVE FindAllFields(_, _)
FindAllFields(c, i) ==
    IF i > Len(c) THEN <<>>
    ELSE IF c[i] # QUOTE THEN FindAllFields(c, i + 1)
    ELSE With(FieldAt(c, i), LAMBDA m :
              IF m.found THEN <<m>> \o FindAllFields(c, m.e + 1)
              ELSE FindAllFields(c, i + 1))

\* The comma-split fallback: the parts that are not blank, stripped of
\* whitespace and quotes.
RECURSIVE OrcSplitItems(_)
OrcSplitItems(parts) ==
    IF parts = <<>> THEN <<>>
    ELSE With(Strip(Head(parts)), LAMBDA part :
         (IF part = <<>> THEN <<>>
          ELSE <<JStr(TextOf(StripQuotes(part)))>>)
             \o OrcSplitItems(Tail(parts)))

\* The dict strategy 5 builds; [k |-> "raise"] when json.loads raises an
\* exception that is no JSONDecodeError.
RECURSIVE OrcFieldDict(_, _)
OrcFieldDict(matches, acc) ==
    IF matches = <<>> THEN Ret(JObj(acc))
    ELSE With(Head(matches), LAMBDA m :
         With(JsonLoads(<<LK>> \o m.g \o <<RK>>), LAMBDA r :
         IF r.st = "rec" THEN Raise
         ELSE OrcFieldDict(Tail(matches),
                  DictSet(acc, m.key,
                          IF r.st = "ok" THEN r.v
                          ELSE JArr(OrcSplitItems(SplitComma(m.g)))))))

\* Strategy 5: a dict rebuilt from the "field": [values] pairs of the text;
\* any exception is swallowed (except Exception: pass).
OrcStrategy5(c) ==
    With(FindAllFields(c, 1), LAMBDA matches :
    IF matches = <<>> THEN None
    ELSE With(OrcFieldDict(matches, <<>>), LAMBDA d :
         IF d.k = "raise" THEN None ELSE d))

\* Strategy 6: the minimal valid structure.
OrcFallback(c) ==
    JObj(<<JKV("extraction_error",
               JArr(<<JStr("Could not parse the model response")>>)),
           JKV("raw_response", JArr(<<JStr(TextOf(Take(c, PreviewLen)))>>))>>)

OrcStrategy(n, c) ==
    CASE n = 1 -> OrcStrategy1(c)
      [] n = 2 -> OrcStrategy2(c)
      [] n = 3 -> OrcStrategy3(c)
      [] n = 4 -> OrcStrategy4(c)
      [] n = 5 -> OrcStrategy5(c)
      [] OTHER -> Ret(OrcFallback(c))

\* The order in which the body of _robust_json_parse tries its strategies.
OrcOrder == <<1, 2, 3, 4, 5, 6>>

RECURSIVE OrcParseFrom(_, _)
OrcParseFrom(c, n) ==
    With(OrcStrategy(OrcOrder[n], c), LAMBDA r :
    IF r.k = "none" /\ n < Len(OrcOrder) THEN OrcParseFrom(c, n + 1) ELSE r)

OrcParse(c) == OrcParseFrom(c, 1)

---------------------------------------------------------------------------
(* The texts the parsers are run on.                                       *)

\* The longest text of the exhaustive family.
MaxLen == 3
\* The longest array of the generated JSON values.
MaxArr == 1

\* The atoms of a string value's text: TextOf(StrAtoms(s)) = s.
StrAtoms(s) == IF s = "}~~~" THEN <<RB, FENCE>> ELSE <<s>>

RECURSIVE Dumps(_)
RECURSIVE DumpsJoined(_, _)

\* json.dumps(v), with its default separators ", " and ": ".
Dumps(v) ==
    CASE v.t = "str" -> <<QUOTE>> \o StrAtoms(v.s) \o <<QUOTE>>
      [] v.t = "kv" -> <<QUOTE>> \o StrAtoms(v.s) \o <<QUOTE, COLON, SP>>
                           \o Dumps(v.kids[1])
      [] v.t = "arr" -> <<LK>> \o DumpsJoined(v.kids, 1) \o <<RK>>
      [] v.t = "obj" -> <<LB>> \o DumpsJoined(v.kids, 1) \o <<RB>>
      [] OTHER -> <<v.s>>

DumpsJoined(kids, i) ==
    IF i > Len(kids) THEN <<>>
    ELSE Dumps(kids[i]) \o (IF i < Len(kids) THEN <<COMMA, SP>> ELSE <<>>)
             \o DumpsJoined(kids, i + 1)

Scalars == {JStr("a@b.com"), JStr("}~~~"), JNum("1"), JLit("true")}

SeqsUpTo(S, n) == UNION {[1..k -> S] : k \in 0..n}

Arrays == {JArr(q) : q \in SeqsUpTo(Scalars, MaxArr)}

Objects ==
    {JObj(<<>>)}
        \cup {JObj(<<JKV("emails", v)>>) : v \in Scalars \cup Arrays}
        \cup {JObj(<<JKV("emails", v), JKV("name", w)>>) :
                 v \in Arrays, w \in {JLit("true"), JStr("}~~~")}}

Spurs == JObj(<<JKV("name", JStr("Spurs")), JKV("result", JStr("lost"))>>)

Nested ==
    {JObj(<<JKV("teams", JArr(<<Spurs>>))>>),
     JObj(<<JKV("teams", JObj(<<JKV("name", JObj(<<>>))>>))>>),
     JObj(<<JKV("teams", JObj(<<JKV("name", Spurs)>>))>>),
     JArr(<<Spurs, JObj(<<>>)>>)}

\* The truncated scenario text: {"teams": [{"name": "Spurs", "result": "lost"}
SpursText ==
    <<LB, QUOTE, "teams", QUOTE, COLON, SP, LK, LB, QUOTE, "name", QUOTE,
      COLON, SP, QUOTE, "Spurs", QUOTE, COMMA, SP, QUOTE, "result", QUOTE,
      COLON, SP, QUOTE, "lost", QUOTE, RB>>

Plain(text) == [text |-> text, fenced |-> FALSE, J |-> JLit("null")]

\* Every text of at most MaxLen atoms of a small alphabet.
ShortTexts ==
    {Plain(t) : t \in SeqsUpTo({LB, RB, LK, RK, QUOTE, COLON, "a", "1"}, MaxLen)}

\* A JSON document alone, between optional whitespace.
JsonTexts ==
    {Plain(pad \o Dumps(v) \o pad) :
        v \in Scalars \cup Arrays \cup Objects \cup Nested,
        pad \in {<<>>, <<NL>>}}

Proses == {<<"Here", SP, "is", SP, "the", SP, "result", COLON, NL>>, <<"x", SP>>}

\* A JSON object in a fenced code block, behind prose.
FencedTexts ==
    {[text |-> prose \o open \o Dumps(v) \o <<NL, FENCE>> \o trail,
      fenced |-> TRUE, J |-> v] :
        prose \in Proses,
        open \in {<<FENCE, "json", NL>>, <<FENCE, NL>>},
        v \in Objects \cup (Nested \ {JArr(<<Spurs, JObj(<<>>)>>)}),
        trail \in {<<>>, <<NL, "x">>}}

\* A JSON document cut short, or without its head.
CutTexts ==
    UNION {{Plain(SubSeq(Dumps(v), 1, n)) : n \in 1..(Len(Dumps(v)) - 1)}
               \cup {Plain(SubSeq(Dumps(v), n, Len(Dumps(v)))) : n \in 2..8} :
           v \in Nested}
        \cup {Plain(SubSeq(Dumps(v), 2, Len(Dumps(v)) - 1)) : v \in Objects}

\* A label, or a bare fence, before a JSON value that is no object.
LabelTexts ==
    {Plain(label \o Dumps(v) \o trail) :
        label \in {<<"JSON", COLON, SP>>, <<"Result", COLON, NL>>,
                   <<FENCE, NL>>, <<"x", SP>>},
        v \in Arrays \cup {JNum("1")},
        trail \in {<<>>, <<NL, NL, "x">>, <<NL, FENCE>>}}

\* Texts that nest brackets deeper than the recursion limit.
DeepTexts ==
    {Plain(t) : t \in {<<DEEP>>, <<"x", SP, DEEP>>, <<"x", SP, DEEP, RK>>,
                       <<LB, QUOTE, "a", QUOTE, COLON, SP, DEEP, RK, RB>>,
                       <<"x", SP, LB, QUOTE, "a", QUOTE, COLON, SP, DEEP, RK, RB>>,
                       <<"x", SP, QUOTE, "a", QUOTE, COLON, SP, DEEP, RK>>,
                       <<FENCE, NL, LB, QUOTE, "a", QUOTE, COLON, DEEP, RB, NL, FENCE>>,
                       <<FENCE, NL, DEEP, NL, FENCE>>}}

Inputs ==
    ShortTexts \cup JsonTexts \cup FencedTexts \cup CutTexts \cup LabelTexts
        \cup DeepTexts \cup {Plain(SpursText)}

---------------------------------------------------------------------------
(* The two request flows around the parsers.                               *)
(* message.content and message.reasoning are Optional[str]: [nil, text].   *)

NoText == [nil |-> TRUE, text |-> <<>>]
Text(t) == [nil |-> FALSE, text |-> t]

\* bool(x) of an Optional[str]: `if reasoning_content:`, `not content`.
Truthy(x) == ~x.nil /\ x.text # <<>>

\* C10, mutant: the check without .strip().
IsEmptyOnly(x) == ~Truthy(x)

\* not extraction_content or not extraction_content.strip()
IsBlank(x) == ~Truthy(x) \/ Strip(x.text) = <<>>

\* bool(v) of a decoded JSON value.
PyTruthy(v) ==
    CASE v.t \in {"obj", "arr"} -> v.kids # <<>>
      [] v.t = "str" -> v.s # ""
      [] v.t = "num" -> v.s \notin {"0", "0.0"}
      [] OTHER -> v.s = "true"

\* The texts that may stand before and behind a word inside a string value.
Affixes == {"", "x", " "}

\* w in v: a key of a dict, an element of a list, a substring of a str;
\* "raise" is the TypeError of a number or a bool.
PyContains(v, w) ==
    CASE v.t = "obj" -> IF HasKey(v, w) THEN "yes" ELSE "no"
      [] v.t = "arr" ->
            IF \E i \in 1..Len(v.kids) : v.kids[i] = JStr(w) THEN "yes" ELSE "no"
      [] v.t = "str" ->
            IF \E a \in Affixes, b \in Affixes : v.s = a \o w \o b
            THEN "yes" ELSE "no"
      [] OTHER -> "raise"

\* max_tokens of the three completion calls.
FirstBudget == 2000
RetryBudget == 4000
DynamicBudget == 3000

TruncatedMsg ==
    "Model response was truncated and no valid JSON could be extracted. Try a shorter document or simpler extraction prompt."
ExtractionFailed == "Extraction failed"
DynamicFailed == "Dynamic query failed"
EmptyResponse == "Empty response from AI model"
NoApiKey == "Dynamic query service not available - missing API key"

\* The results of models.py, and an exception that leaves the call.
\* query is the "query" of an ai_extraction_result.
TemplateExtractionResult(d) ==
    [type |-> "template", data |-> d, msg |-> "", query |-> ""]
AIExtractionResult(d, q) ==
    [type |-> "ai", data |-> d, msg |-> "success", query |-> q]
ErrorResult(m) ==
    [type |-> "error", data |-> JLit("null"), msg |-> m, query |-> ""]
Escapes == [type |-> "raise", data |-> JLit("null"), msg |-> "", query |-> ""]
NoResult == [type |-> "none", data |-> JLit("null"), msg |-> "", query |-> ""]

\* settings.default_templates[template]
TemplateGoals ==
    [t \in DefaultTemplates |->
        CASE t = "emails" ->
                 "Extract email addresses, subjects, and sender information"
          [] t = "contacts" ->
                 "Extract contact information including names, phone numbers, and addresses"
          [] t = "invoices" ->
                 "Extract invoice details including amounts, dates, and vendor information"
          [] t = "resumes" ->
                 "Extract candidate information, skills, and experience"
          [] t = "contracts" ->
                 "Extract key contract terms, dates, and parties involved"
          [] t = "medical" ->
                 "Extract medical information, diagnoses, and treatment details"
          [] OTHER ->
                 "Extract financial data, transactions, and account information"]

DefaultGoal ==
    "Extract key information from the document including contact details, important dates, and main topics"

\* extraction_goal
ExtractionGoal(req) ==
    IF req.template # "" /\ req.template \in DefaultTemplates
    THEN TemplateGoals[req.template]
    ELSE IF req.custom # "" THEN req.custom
    ELSE DefaultGoal

\* C17, mutant: a custom prompt decides the kind of the result before the
\* template does.
ResultTypeCustomFirst(req) ==
    IF req.custom # "" THEN "ai_extraction"
    ELSE IF req.template # "" /\ req.template \in DefaultTemplates
    THEN "template"
    ELSE "ai_extraction"

\* result_type: "template" for a template of settings.default_templates.
ResultType(req) ==
    IF req.template # "" /\ req.template \in DefaultTemplates THEN "template"
    ELSE "ai_extraction"

\* What the parse of the reasoning field leads to: "ok" (the data is taken
\* as recovered), "retry" (the larger budget is tried), or "skip" (an
\* exception, which the inner handler swallows).
ReasoningVerdict(r) ==
    IF r.k = "raise" THEN "skip"
    ELSE IF ~PyTruthy(r.v) THEN "retry"
    ELSE With(PyContains(r.v, "extraction_error"), LAMBDA has :
         IF has = "raise" THEN "skip"
         ELSE IF has = "no" THEN "ok"
         ELSE "retry")

\* Whether extract_data_single_stage hands the content to the parser.
ParsesContent(truncated, x) == ~(truncated /\ IsBlank(x)) /\ Truthy(x)

\* From the parsed content to the result: logging reads len() and
\* .values() of the data, which a value that is no dict does not survive.
Package(req, r) ==
    IF r.k = "raise" \/ ~IsDict(r.v) THEN ErrorResult(ExtractionFailed)
    ELSE IF ResultType(req) = "template" THEN TemplateExtractionResult(r.v)
    ELSE AIExtractionResult(r.v, ExtractionGoal(req))

\* extract_data_single_stage from its check of the empty content on.
Conclude(req, truncated, x) ==
    IF truncated /\ IsBlank(x) THEN ErrorResult(TruncatedMsg)
    ELSE IF ~Truthy(x) THEN ErrorResult(ExtractionFailed)
    ELSE Package(req, OrcParse(x.text))

\* ErrorResult(error=parsed_data["error"]): the field is a str.
ErrorFrom(v) ==
    IF v.t = "str" THEN ErrorResult(v.s) ELSE ErrorResult(DynamicFailed)

\* C7, mutant: process_dynamic_query without its check of the "error" key.
DynamicPackageUnchecked(req, r) ==
    IF r.k = "raise" THEN ErrorResult(DynamicFailed)
    ELSE AIExtractionResult(r.v, req.custom)

\* What process_dynamic_query makes of the parsed response.
DynamicPackage(req, r) ==
    IF r.k = "raise" THEN ErrorResult(DynamicFailed)
    ELSE IF HasKey(r.v, "error") THEN ErrorFrom(DictGet(r.v, "error"))
    ELSE AIExtractionResult(r.v, req.custom)

\* process_dynamic_query from the completion's content on.
DynamicConclude(req, x) ==
    IF ~Truthy(x) THEN ErrorResult(EmptyResponse)
    ELSE DynamicPackage(req, DqsParse(x.text))

---------------------------------------------------------------------------
(* The document text of a dynamic query, on its way into the user prompt.  *)
(* A long text is a sequence of pieces [s, off, n]: the n characters that  *)
(* follow the first off characters of s; s = "doc" stands for the document *)
(* text itself, whose characters are no whitespace and match none of the   *)
(* section patterns of _split_into_sections.                               *)

\* self.max_document_tokens, and the characters taken for a token.
MaxDocumentTokens == 6000
CharsPerToken == 4
\* max_doc_length of _build_dynamic_user_prompt.
MaxDocLength == 8000
\* _split_into_sections: the length above which a text without section
\* markers is cut into chunks, and the length the chunks aim at.
SplitAbove == 2000
ChunkTarget == 1000

DocTruncated == "\n\n[DOCUMENT TRUNCATED DUE TO LENGTH...]"
PromptTruncated == "\n\n[Document truncated due to length...]"

DocPiece(off, n) == [s |-> "doc", off |-> off, n |-> n]
Lit(s) == [s |-> s, off |-> 0, n |-> Len(s)]

\* The document text of n characters.
DocText(n) == IF n = 0 THEN <<>> ELSE <<DocPiece(0, n)>>

\* The length of the pieces lo..hi of a text (summed by halves, so that the
\* evaluation does not nest as deep as the text is long).
RECURSIVE PiecesSum(_, _, _)
PiecesSum(t, lo, hi) ==
    IF lo > hi THEN 0
    ELSE IF lo = hi THEN t[lo].n
    ELSE PiecesSum(t, lo, (lo + hi) \div 2)
             + PiecesSum(t, (lo + hi) \div 2 + 1, hi)

\* len(text)
PiecesLen(t) == PiecesSum(t, 1, Len(t))

\* text[:k]
PiecesTake(t, k) ==
    LET m == Cardinality({i \in 1..Len(t) : PiecesSum(t, 1, i - 1) < k})
    IN [i \in 1..m |->
           IF PiecesSum(t, 1, i) <= k THEN t[i]
           ELSE [t[i] EXCEPT !.n = k - PiecesSum(t, 1, i - 1)]]

\* math.ceil(a / b) of positive integers.
CeilDiv(a, b) == (a + b - 1) \div b

\* _split_into_sections of a text of n characters: the [off, n] of its
\* sections.  No pattern splits the text; one above SplitAbove characters
\* is cut into chunks of len // ceil(len / 1000) characters.
SplitIntoSections(n) ==
    IF n > SplitAbove
    THEN LET size == n \div CeilDiv(n, ChunkTarget)
         IN [i \in 1..CeilDiv(n, size) |->
                DocPiece((i - 1) * size, Min(size, n - (i - 1) * size))]
    ELSE <<DocPiece(0, n)>>

\* "\n\n".join of the sections, each between [PAGE i] and [/PAGE i].
JoinWithMarkers(sections) ==
    LET k == Len(sections)
    IN [j \in 1..(4 * k - 1) |->
           LET i == (j + 3) \div 4
               r == j - 4 * (i - 1)
           IN CASE r = 1 -> Lit("[PAGE " \o ToString(i) \o "]\n")
                [] r = 2 -> sections[i]
                [] r = 3 -> Lit("\n[/PAGE " \o ToString(i) \o "]")
                [] OTHER -> Lit("\n\n")]

\* _preprocess_document_with_citations: processed_doc.
PreprocessDocument(n, citations) ==
    IF ~citations THEN DocText(n)
    ELSE With(JoinWithMarkers(SplitIntoSections(n)), LAMBDA joined :
         IF PiecesLen(joined) > MaxDocumentTokens * CharsPerToken
         THEN Append(PiecesTake(joined, MaxDocumentTokens * CharsPerToken),
                     Lit(DocTruncated))
         ELSE joined)

\* _build_dynamic_user_prompt: the document text the prompt embeds.
EmbeddedDocument(t) ==
    IF PiecesLen(t) > MaxDocLength
    THEN Append(PiecesTake(t, MaxDocLength), Lit(PromptTruncated))
    ELSE t

\* The lengths of the documents a dynamic query is made about.
DocLengths == {1500, 2500, 8000, 8001, 10000, 24000, 24001, 26000}

---------------------------------------------------------------------------
(* Documents with structure.  Besides runs of the document's plain         *)
(* characters, a text holds pieces that are a newline, a blank, or a word  *)
(* of a header line; the section patterns of _split_into_sections are     *)
(* matched piece by piece, which is how the regular expressions match      *)
(* these words character by character.                                     *)

Keywords == {"CHAPTER", "Chapter", "SECTION", "Section"}
Numerals == {"1", "2"}
AllCaps == {"CHAPTER", "SECTION", "INTRODUCTION", "AND", "SCOPE"}
Capitalised == AllCaps \cup {"Chapter", "Section", "Intro"}

\* \s matches the piece.
Blank(p) == p.s \in {NL, SP}

\* The piece at j, or a piece that nothing matches beyond the end.
At(t, j) == IF j \in 1..Len(t) THEN t[j] ELSE Lit("")

\* \s* from the piece at i on: where the first piece that is no blank is.
SkipBlank(t, i) ==
    CHOOSE j \in i..(Len(t) + 1) :
        /\ \A k \in i..(j - 1) : Blank(t[k])
        /\ ~Blank(At(t, j))

\* A match of a pattern that starts with the newline at i: the last piece
\* it takes characters of, and how many of them; last = 0 for no match.
Matched(last, cut) == [last |-> last, cut |-> cut]
Unmatched == Matched(0, 0)

\* The length of the headers of the third pattern, after their first letter.
CapsHeader == 10

\* r'\n\s*(?:CHAPTER|Chapter|SECTION|Section)\s+\d+'
MatchChapter(t, i) ==
    With(SkipBlank(t, i + 1), LAMBDA j :
    IF At(t, j).s \in Keywords /\ Blank(At(t, j + 1))
    THEN With(SkipBlank(t, j + 1), LAMBDA k :
              IF At(t, k).s \in Numerals THEN Matched(k, t[k].n)
              ELSE Unmatched)
    ELSE Unmatched)

\* r'\n\s*\d+\.\s+[A-Z]': the match ends with the first letter of the
\* heading.
MatchNumbered(t, i) ==
    With(SkipBlank(t, i + 1), LAMBDA j :
    IF /\ At(t, j).s \in Numerals
       /\ At(t, j + 1).s = "."
       /\ Blank(At(t, j + 2))
    THEN With(SkipBlank(t, j + 2), LAMBDA k :
              IF At(t, k).s \in Capitalised THEN Matched(k, 1)
              ELSE Unmatched)
    ELSE Unmatched)

\* r'\n\s*[A-Z][A-Z\s]{10,}\n': the run of capitals and blanks is taken as
\* far as it goes and given back to its last newline.
MatchCapsHeader(t, i) ==
    With(SkipBlank(t, i + 1), LAMBDA j :
    IF At(t, j).s \in AllCaps
    THEN With({e \in (j + 1)..Len(t) :
                  /\ t[e].s = NL
                  /\ \A k \in j..e : Blank(t[k]) \/ t[k].s \in AllCaps
                  /\ PiecesSum(t, j, e - 1) - 1 >= CapsHeader},
              LAMBDA ends :
                 IF ends = {} THEN Unmatched
                 ELSE Matched(CHOOSE e \in ends : \A f \in ends : f <= e, 1))
    ELSE Unmatched)

\* r'\n\s*={3,}\n' and r'\n\s*-{3,}\n'
MatchRule(t, i, rule) ==
    With(SkipBlank(t, i + 1), LAMBDA j :
    IF At(t, j).s = rule /\ At(t, j + 1).s = NL THEN Matched(j + 1, 1)
    ELSE Unmatched)

\* section_patterns[p - 1], matched at the newline i.
MatchPattern(p, t, i) ==
    CASE p = 1 -> MatchChapter(t, i)
      [] p = 2 -> MatchNumbered(t, i)
      [] p = 3 -> MatchCapsHeader(t, i)
      [] p = 4 -> MatchRule(t, i, "===")
      [] OTHER -> MatchRule(t, i, "---")

\* The matches of a pattern from the piece i on, leftmost first, none
\* overlapping another: [from, last, cut].
RECURSIVE MatchesFrom(_, _, _)
MatchesFrom(p, t, i) ==
    IF i > Len(t) THEN <<>>
    ELSE IF t[i].s # NL THEN MatchesFrom(p, t, i + 1)
    ELSE With(MatchPattern(p, t, i), LAMBDA m :
         IF m.last = 0 THEN MatchesFrom(p, t, i + 1)
         ELSE <<[from |-> i, last |-> m.last, cut |-> m.cut]>>
              \o MatchesFrom(p, t, m.last + 1))

\* re.split(pattern, text): the texts between the matches; the characters
\* of a match belong to none of them.
RegexSplit(p, t) ==
    With(MatchesFrom(p, t, 1), LAMBDA ms :
    [k \in 1..(Len(ms) + 1) |->
        (IF k > 1 /\ ms[k - 1].cut < t[ms[k - 1].last].n
         THEN <<[t[ms[k - 1].last] EXCEPT !.off = @ + ms[k - 1].cut,
                                           !.n = @ - ms[k - 1].cut]>>
         ELSE <<>>)
        \o SubSeq(t, IF k = 1 THEN 1 ELSE ms[k - 1].last + 1,
                     IF k <= Len(ms) THEN ms[k].from - 1 ELSE Len(t))])

\* s.strip() is not empty.
HasContent(s) == \E i \in 1..Len(s) : ~Blank(s[i])

\* s.strip()
StripPieces(s) ==
    IF ~HasContent(s) THEN <<>>
    ELSE SubSeq(s, SkipBlank(s, 1),
                CHOOSE j \in 1..Len(s) :
                    /\ ~Blank(s[j])
                    /\ \A k \in (j + 1)..Len(s) : Blank(s[k]))

\* text[a:]
PiecesDrop(t, a) ==
    With({i \in 1..Len(t) : PiecesSum(t, 1, i) > a}, LAMBDA rest :
    IF rest = {} THEN <<>>
    ELSE With(CHOOSE i \in rest : \A j \in rest : i <= j, LAMBDA i :
         With(a - PiecesSum(t, 1, i - 1), LAMBDA gone :
              <<[t[i] EXCEPT !.off = @ + gone, !.n = @ - gone]>>
              \o SubSeq(t, i + 1, Len(t)))))

\* text[a:a + n]
PiecesSlice(t, a, n) == PiecesDrop(PiecesTake(t, a + n), a)

\* The chunks of a text of len characters: len // ceil(len / 1000)
\* characters each, the last one what is left.
Chunks(t, len) ==
    With(len \div CeilDiv(len, ChunkTarget), LAMBDA size :
    [i \in 1..CeilDiv(len, size) |-> PiecesSlice(t, (i - 1) * size, size)])

\* C24, mutant: the chunks without the rest that the last division leaves.
SplitTextEvenly(t) ==
    With({p \in 1..5 : Len(SelectSeq(RegexSplit(p, t), HasContent)) > 1},
         LAMBDA winners :
    IF winners # {}
    THEN SelectSeq(RegexSplit(CHOOSE p \in winners : \A q \in winners : p <= q,
                              t),
                   HasContent)
    ELSE IF PiecesLen(t) > SplitAbove
    THEN With(PiecesLen(t) \div CeilDiv(PiecesLen(t), ChunkTarget),
              LAMBDA size :
                 [i \in 1..(PiecesLen(t) \div size) |->
                     PiecesSlice(t, (i - 1) * size, size)])
    ELSE <<t>>)

\* _split_into_sections of a text: the sections of the first pattern that
\* splits it into more than one section with content; else the chunks of a
\* text above SplitAbove characters; else the text.
SplitText(t) ==
    With({p \in 1..5 : Len(SelectSeq(RegexSplit(p, t), HasContent)) > 1},
         LAMBDA winners :
    IF winners # {}
    THEN SelectSeq(RegexSplit(CHOOSE p \in winners : \A q \in winners : p <= q,
                              t),
                   HasContent)
    ELSE IF PiecesLen(t) > SplitAbove THEN Chunks(t, PiecesLen(t))
    ELSE <<t>>)

\* "\n\n".join of the sections i.. of a text, each stripped and put between
\* [PAGE i] and [/PAGE i].
RECURSIVE JoinMarked(_, _)
JoinMarked(sections, i) ==
    IF i > Len(sections) THEN <<>>
    ELSE <<Lit("[PAGE " \o ToString(i) \o "]\n")>>
         \o StripPieces(sections[i])
         \o <<Lit("\n[/PAGE " \o ToString(i) \o "]")>>
         \o (IF i < Len(sections) THEN <<Lit("\n\n")>> ELSE <<>>)
         \o JoinMarked(sections, i + 1)

\* processed_doc of _preprocess_document_with_citations, from the sections.
ProcessedDoc(sections) ==
    With(JoinMarked(sections, 1), LAMBDA joined :
    IF PiecesLen(joined) > MaxDocumentTokens * CharsPerToken
    THEN Append(PiecesTake(joined, MaxDocumentTokens * CharsPerToken),
                Lit(DocTruncated))
    ELSE joined)

\* page_map: the entries "page_N": N as [key, page].
PageMap(sections) ==
    {[key |-> "page_" \o ToString(k), page |-> k] : k \in 1..Len(sections)}

\* processing_stats as __init__ leaves it, and a tally of no calls.
NoStats ==
    [documents_processed |-> 0, successful_extractions |-> 0,
     failed_extractions |-> 0]
NoTally == [calls |-> 0, results |-> 0, errors |-> 0]

\* The header lines, and the documents the sectioning is followed with:
\* plain ones around the lengths that matter, and ones with header lines.
Body(off, n) == <<DocPiece(off, n)>>
Headers ==
    {<<Lit(NL), Lit("CHAPTER"), Lit(SP), Lit("1"), Lit(NL)>>,
     <<Lit(NL), Lit(SP), Lit("Section"), Lit(SP), Lit("2"), Lit(NL)>>,
     <<Lit(NL), Lit("1"), Lit("."), Lit(SP), Lit("Intro"), Lit(NL)>>,
     <<Lit(NL), Lit("INTRODUCTION"), Lit(SP), Lit("AND"), Lit(SP),
       Lit("SCOPE"), Lit(NL)>>,
     <<Lit(NL), Lit("SCOPE"), Lit(NL)>>,
     <<Lit(NL), Lit("==="), Lit(NL)>>,
     <<Lit(NL), Lit(NL), Lit("---"), Lit(NL)>>}
PlainLengths ==
    {1, 1500, 2000, 2001, 2002, 2999, 3000, 3001, 5003, 8000, 23000, 26000}
BodyLengths == {<<300, 400>>, <<1200, 1500>>, <<12000, 13000>>}
Documents ==
    {Body(0, n) : n \in PlainLengths}
    \cup {Body(0, ab[1]) \o h \o Body(ab[1], ab[2]) :
             h \in Headers, ab \in BodyLengths}
    \cup {h \o Body(0, n) : h \in Headers, n \in {400, 2500}}
    \cup {Body(0, n) \o h \o <<Lit(SP), Lit(NL)>> :
             h \in Headers, n \in {400, 2500}}
    \cup {Body(0, 700) \o h \o Body(700, 800) \o g \o Body(1500, 900) :
             h \in Headers, g \in Headers}
    \cup {<<Lit(SP), Lit(NL)>>}

---------------------------------------------------------------------------
(* Uploaded files.  The content of a file is a sequence of bytes, head,    *)
(* followed by pad more bytes that are all the letter "a"; every head is   *)
(* far shorter than the 1024 bytes that _detect_by_content searches.       *)
(* A filename is [stem, ext]: ext is Path(filename).suffix, "" if none.    *)

\* What a decoding yields besides Ret(text): an exception, which
\* _extract_text_from_file passes on as a ValueError; and the yield before
\* any decoding.
ValueError == [k |-> "raise", v |-> <<>>]
NotExtracted == [k |-> "none", v |-> <<>>]

PdfMime == "application/pdf"
DocxMime ==
    "application/vnd.openxmlformats-officedocument.wordprocessingml.document"
TxtMime == "text/plain"
PngMime == "image/png"
JpegMime == "image/jpeg"
ZipMime == "application/zip"

\* The magic bytes of _detect_by_content.
PdfSig == <<"%", "P", "D", "F">>
ZipSig == <<"P", "K", "\\x03", "\\x04">>
PngSig == <<"\\x89", "P", "N", "G">>
JpegSig == <<"\\xff", "\\xd8", "\\xff">>
WordDir == <<"w", "o", "r", "d", "/">>

\* The bytes above 0x7f of the model.
HighBytes == {"\\x89", "\\xff", "\\xd8"}

\* settings.max_file_size_mb, and the 50 of the endpoints' size checks.
MaxFileSizeMb == 50
EndpointMaxMb == 50
MegaByte == 1024 * 1024

NoName == [stem |-> "", ext |-> ""]
FileSize(f) == Len(f.head) + f.pad

\* file.size: None when the attribute is not populated (0 stands for None:
\* the code reads it as `file.size and ...`).
SizeAttribute(f) == IF f.sized THEN FileSize(f) ELSE 0

\* content.startswith(sig)
StartsWith(c, sig) == Len(c) >= Len(sig) /\ SubSeq(c, 1, Len(sig)) = sig

\* sub in content
Contains(c, sub) ==
    \E i \in 1..(Len(c) - Len(sub) + 1) : SubSeq(c, i, i + Len(sub) - 1) = sub

\* str.lower() of a suffix.
Lower(ext) ==
    CASE ext = ".PDF" -> ".pdf"
      [] ext = ".TXT" -> ".txt"
      [] OTHER -> ext

\* extension_mapping of detect_file_type: the MIME type of a suffix, "" for
\* a suffix it does not hold.
ExtensionMapping(ext) ==
    CASE ext = ".pdf" -> PdfMime
      [] ext = ".docx" -> DocxMime
      [] ext = ".txt" -> TxtMime
      [] ext = ".png" -> PngMime
      [] ext \in {".jpg", ".jpeg"} -> JpegMime
      [] OTHER -> ""

\* _is_supported_file_type
IsSupportedFileType(name) ==
    /\ name # NoName
    /\ Lower(name.ext) \in {".pdf", ".docx", ".txt", ".png", ".jpg", ".jpeg"}

\* The bytes the decoders see: the head, and of the letters behind it the
\* first one or two, as many as keep the length's parity.
Sample(f) ==
    f.head \o [i \in 1..(IF f.pad = 0 THEN 0 ELSE 2 - (f.pad % 2)) |-> "a"]

\* bytes.decode('utf-8'): 0xd8 0x89 is the one sequence of two bytes.
RECURSIVE Utf8Decode(_)
Utf8Decode(c) ==
    IF c = <<>> THEN Ret(<<>>)
    ELSE IF Head(c) = "\\xd8"
    THEN IF Len(c) >= 2 /\ c[2] = "\\x89"
         THEN With(Utf8Decode(SubSeq(c, 3, Len(c))), LAMBDA rest :
              IF rest.k = "raise" THEN ValueError ELSE Ret(<<"\\u0609">> \o rest.v))
         ELSE ValueError
    ELSE IF Head(c) \in HighBytes THEN ValueError
    ELSE With(Utf8Decode(Tail(c)), LAMBDA rest :
         IF rest.k = "raise" THEN ValueError ELSE Ret(<<Head(c)>> \o rest.v))

\* _detect_by_content: the MIME type, "" for None.
DetectByContent(f) ==
    IF FileSize(f) < 4 THEN ""
    ELSE IF StartsWith(f.head, PdfSig) THEN PdfMime
    ELSE IF StartsWith(f.head, ZipSig) /\ Contains(f.head, WordDir) THEN DocxMime
    ELSE IF StartsWith(f.head, PngSig) THEN PngMime
    ELSE IF StartsWith(f.head, JpegSig) THEN JpegMime
    ELSE IF Utf8Decode(Sample(f)).k = "ret" THEN TxtMime
    ELSE ""

\* filetype.guess(file_content).mime, "" for None.  The library matches
\* the magic bytes of its formats; of a ZIP container it reports a
\* word-processing document or a plain archive, depending on what it finds
\* inside.
FiletypeGuess(f) ==
    IF StartsWith(f.head, PdfSig) THEN {PdfMime}
    ELSE IF StartsWith(f.head, ZipSig) THEN {DocxMime, ZipMime}
    ELSE IF StartsWith(f.head, PngSig) THEN {PngMime}
    ELSE IF StartsWith(f.head, JpegSig) THEN {JpegMime}
    ELSE {""}

\* detect_file_type after the first method: the extension, then the
\* content, then text/plain.
DetectByName(f) ==
    IF f.name # NoName /\ ExtensionMapping(Lower(f.name.ext)) # ""
    THEN ExtensionMapping(Lower(f.name.ext))
    ELSE IF DetectByContent(f) # "" THEN DetectByContent(f)
    ELSE TxtMime

\* detect_file_type, guess being what filetype.guess reported when the
\* library is available.
DetectFileType(f, available, guess) ==
    IF available /\ guess # "" THEN guess ELSE DetectByName(f)

\* self.supported_types: the decoder of a MIME type, "" if it has none.
SupportedTypes(m) ==
    CASE m = PdfMime -> "pdf"
      [] m = DocxMime -> "docx"
      [] m = TxtMime -> "txt"
      [] m \in {PngMime, JpegMime, "image/jpg"} -> "image"
      [] OTHER -> ""

\* The character of the UTF-16 code unit with low byte lo and high byte hi.
Utf16Char(lo, hi) == "\\u[" \o hi \o lo \o "]"

\* str.isspace() of a decoded character: U+200A and U+202F are the code
\* units of the model's bytes that are whitespace.
IsSpace(a) == IsWs(a) \/ a \in {Utf16Char(NL, SP), Utf16Char("/", SP)}

\* bool(text.strip())
HasText(t) == \E i \in 1..Len(t) : ~IsSpace(t[i])

\* bytes.decode('utf-16'): little-endian code units; the bytes of the model
\* form no byte-order mark and no low surrogate, so that a high surrogate
\* (high byte 0xd8) is an error, as is a single last byte.
Utf16Decode(c) ==
    IF Len(c) % 2 = 1 \/ \E i \in 1..(Len(c) \div 2) : c[2 * i] = "\\xd8"
    THEN ValueError
    ELSE Ret([i \in 1..(Len(c) \div 2) |-> Utf16Char(c[2 * i - 1], c[2 * i])])

\* C15, mutant: the first encoding that decodes the bytes is taken, whether
\* or not its text holds more than whitespace.
ExtractTextFromTxtUnguarded(c) ==
    With(Utf8Decode(c), LAMBDA u8 :
    With(Utf16Decode(c), LAMBDA u16 :
    IF u8.k = "ret" THEN u8
    ELSE IF u16.k = "ret" THEN u16
    ELSE Ret(c)))

\* _extract_text_from_txt: utf-8, utf-16, latin-1, cp1252 in this order; the
\* first text with a character that is no whitespace is returned.  latin-1
\* and cp1252 decode every byte of the model to a character of its own.
ExtractTextFromTxt(c) ==
    With(Utf8Decode(c), LAMBDA u8 :
    With(Utf16Decode(c), LAMBDA u16 :
    IF u8.k = "ret" /\ HasText(u8.v) THEN u8
    ELSE IF u16.k = "ret" /\ HasText(u16.v) THEN u16
    ELSE IF HasText(c) THEN Ret(c)
    ELSE ValueError))

\* "\n\n".join and the like: the texts of list with sep between them.
RECURSIVE JoinTexts(_, _)
JoinTexts(list, sep) ==
    IF list = <<>> THEN <<>>
    ELSE IF Len(list) = 1 THEN list[1]
    ELSE list[1] \o sep \o JoinTexts(Tail(list), sep)

\* f"--- Page {page_num + 1} ---" for the page at index page_num.
PageMarker(number) == "--- Page " \o ToString(number) \o " ---"

\* C16, mutant: the markers count the retained pages.
PdfTextContentRenumbered(pages) ==
    LET kept == {i \in 1..Len(pages) : Strip(pages[i]) # <<>>}
        Nth(k) == CHOOSE i \in kept : Cardinality({j \in kept : j <= i}) = k
    IN [k \in 1..Cardinality(kept) |->
           <<PageMarker(k), NL>> \o pages[Nth(k)]]

\* text_content of _extract_text_from_pdf: of every page whose text holds
\* more than whitespace, the marker with the page's position and the text.
PdfTextContent(pages) ==
    LET kept == {i \in 1..Len(pages) : Strip(pages[i]) # <<>>}
        Nth(k) == CHOOSE i \in kept : Cardinality({j \in kept : j <= i}) = k
    IN [k \in 1..Cardinality(kept) |->
           <<PageMarker(Nth(k)), NL>> \o pages[Nth(k)]]

\* _extract_text_from_pdf: PyPDF2 first, pypdf when that raised or found no
\* text.  A read is [ok, pages]: the reader raised, or the texts of the
\* pages.
ExtractTextFromPdf(pypdf2, pypdf) ==
    IF pypdf2.ok /\ PdfTextContent(pypdf2.pages) # <<>>
    THEN Ret(JoinTexts(PdfTextContent(pypdf2.pages), <<NL, NL>>))
    ELSE IF ~pypdf.ok \/ PdfTextContent(pypdf.pages) = <<>> THEN ValueError
    ELSE Ret(JoinTexts(PdfTextContent(pypdf.pages), <<NL, NL>>))

\* _extract_text_from_docx: a read is [ok, paragraphs, tables]; a table is
\* its rows, a row the texts of its cells.
ExtractTextFromDocx(read) ==
    LET RowText(row) ==
            JoinTexts(SelectSeq([i \in 1..Len(row) |-> Strip(row[i])],
                                LAMBDA cell : cell # <<>>),
                      <<SP, "|", SP>>)
        TableText(table) ==
            JoinTexts(SelectSeq([i \in 1..Len(table) |-> RowText(table[i])],
                                LAMBDA row : row # <<>>),
                      <<NL>>)
        text_content ==
            SelectSeq(read.paragraphs, LAMBDA par : Strip(par) # <<>>)
                \o SelectSeq([i \in 1..Len(read.tables) |->
                                 TableText(read.tables[i])],
                             LAMBDA table : table # <<>>)
    IN IF ~read.ok \/ text_content = <<>> THEN ValueError
       ELSE Ret(JoinTexts(text_content, <<NL, NL>>))

\* _extract_text_from_image: the placeholder text, or Image.open raised.
ExtractTextFromImage(opened) ==
    IF ~opened THEN ValueError
    ELSE Ret(<<"Image Processing Placeholder", NL, "Format: ", NL, "Size: ",
               NL, "Mode: ", NL, NL, "Note: OCR text extraction is not implemented in this version. ">>)

(* An upload before there is one, and a response before there is one. *)
NoUpload == [name |-> NoName, sized |-> FALSE, head |-> <<>>, pad |-> 0]
NoForm ==
    [query |-> <<>>, citation_style |-> "", template |-> "", custom |-> "",
     enable_summarization |-> TRUE, enable_citations |-> TRUE,
     force_summarization |-> FALSE, max_summary_length |-> 200]
NoReply == [status |-> 0, body |-> NoResult]

(* What the model endpoint may answer.                                     *)

EmailsObject == JObj(<<JKV("emails", JArr(<<JStr("a@b.com")>>))>>)

\* message.content of a completion.
Contents ==
    {NoText, Text(<<>>), Text(<<SP>>), Text(<<NL, SP>>),
     Text(Dumps(EmailsObject)),
     Text(<<FENCE, "json", NL>> \o Dumps(EmailsObject) \o <<NL, FENCE>>),
     Text(SubSeq(Dumps(EmailsObject), 1, 8)),
     Text(<<LK, "1", RK>>), Text(<<"true">>), Text(<<"x">>), Text(<<DEEP>>),
     Text(Dumps(JObj(<<JKV("extraction_error", JArr(<<JStr("x")>>))>>))),
     Text(Dumps(JObj(<<JKV("error", JStr("a@b.com"))>>))),
     Text(Dumps(JObj(<<JKV("emails", JStr("a@b.com"))>>))),
     Text(Dumps(JObj(<<JKV("error", JArr(<<JNum("1")>>)),
                       JKV("name", JLit("true"))>>)))}

\* message.reasoning of a completion: absent, or the model's thoughts.
Reasonings ==
    {NoText, Text(<<>>), Text(<<"x">>), Text(<<DEEP>>),
     Text(Dumps(EmailsObject)),
     Text(<<"x", SP>> \o Dumps(JObj(<<JKV("name", JLit("true"))>>))),
     Text(<<LK, RK>>), Text(<<LK, "1", RK>>), Text(<<"1">>),
     Text(<<QUOTE, "extraction_error", QUOTE>>),
     Text(<<LK, QUOTE, "extraction_error", QUOTE, RK>>),
     Text(Dumps(JObj(<<JKV("extraction_error", JArr(<<JStr("x")>>))>>)))}

\* A completion: the call raised (fail), or choices[0] of the response.
Failed == [fail |-> TRUE, content |-> NoText, finish |-> "", reasoning |-> NoText]
Completion(x, finish, reasoning) ==
    [fail |-> FALSE, content |-> x, finish |-> finish, reasoning |-> reasoning]
NoResponse == [fail |-> FALSE, content |-> NoText, finish |-> "", reasoning |-> NoText]

FirstResponses ==
    {Failed} \cup {Completion(x, f, r) :
                      x \in Contents, f \in {"stop", "length"}, r \in Reasonings}

\* Of the retried completion the code reads the content alone.
RetryResponses == {Failed} \cup {Completion(x, "length", NoText) : x \in Contents}

DynamicResponses == {Failed} \cup {Completion(x, "stop", NoText) : x \in Contents}

\* template and custom_prompt of a request ("": None, or empty).
Requests ==
    {[template |-> t, custom |-> c] :
        t \in {"", "emails", "poems"}, c \in {"", "Extract the teams"}}

\* The responses of the endpoints: an HTTPException with its status code,
\* or the returned result, which FastAPI sends with status 200.
HttpException(status, detail) ==
    [status |-> status,
     body |-> [type |-> "detail", data |-> JLit("null"), msg |-> detail,
               query |-> ""]]
Returned(res) == [status |-> 200, body |-> res]

\* The uploads: every name with every head, and files at and above the
\* size limit, with the size attribute populated or not.
Names ==
    {NoName} \cup
    {[stem |-> n[1], ext |-> n[2]] :
        n \in {<<"report", ".pdf">>, <<"report", ".PDF">>,
               <<"letter", ".docx">>, <<"notes", ".txt">>,
               <<"scan", ".png">>, <<"photo", ".jpg">>, <<"data", ".csv">>,
               <<"README", "">>}}

Heads ==
    {PdfSig \o <<"a">>, ZipSig \o WordDir, ZipSig \o <<"a", "a">>, PngSig,
     JpegSig \o <<"a">>, JpegSig,
     <<>>, <<"a", SP>>, <<SP, NL>>, <<SP, SP>>, <<NL, SP>>, <<"\\xff", "a">>,
     <<"\\xd8", "\\x89">>}

LargeSizes ==
    {MaxFileSizeMb * MegaByte, MaxFileSizeMb * MegaByte + 1, 60 * MegaByte}

Uploads ==
    {[name |-> n, sized |-> TRUE, head |-> h, pad |-> 0] :
        n \in Names, h \in Heads}
    \cup
    {[name |-> n, sized |-> z, head |-> h, pad |-> size - Len(h)] :
        n \in {[stem |-> "report", ext |-> ".pdf"],
               [stem |-> "data", ext |-> ".csv"]},
        z \in BOOLEAN, h \in {PdfSig \o <<"a">>, <<"a", SP>>},
        size \in LargeSizes}

\* The uploads the endpoints are followed with.
Named(stem, ext, head) ==
    [name |-> [stem |-> stem, ext |-> ext], sized |-> TRUE, head |-> head,
     pad |-> 0]
EndpointUploads ==
    {u \in Uploads : u.pad > 0 /\ u.head = PdfSig \o <<"a">>}
    \cup {[name |-> NoName, sized |-> TRUE, head |-> <<"a", SP>>, pad |-> 0],
          Named("report", ".pdf", PdfSig \o <<"a">>),
          Named("notes", ".txt", <<"a", SP>>),
          Named("notes", ".txt", <<SP, NL>>),
          Named("data", ".csv", <<"a", SP>>),
          Named("data", ".csv", PdfSig \o <<"a">>),
          Named("letter", ".docx", ZipSig \o WordDir),
          Named("scan", ".png", PngSig),
          Named("README", "", ZipSig \o <<"a", "a">>)}

\* message.content of the completions they are followed with.
ServiceContents ==
    {NoText, Text(<<"x">>), Text(Dumps(EmailsObject)),
     Text(Dumps(JObj(<<JKV("error", JStr("a@b.com"))>>)))}

\* The form fields of the endpoints; those of /api/analyze-query are the
\* query alone.
TeamsQuery == <<"Extract", SP, "the", SP, "teams">>
Forms(ep) ==
    IF ep = "analyze"
    THEN {[NoForm EXCEPT !.query = q] : q \in {<<SP>>, TeamsQuery}}
    ELSE IF ep = "extract"
    THEN {[NoForm EXCEPT !.template = t] : t \in {"", "emails"}}
    ELSE IF ep = "dynamic"
    THEN {[NoForm EXCEPT !.query = q, !.citation_style = "page_numbers"] :
             q \in {<<>>, <<SP>>, TeamsQuery}}
    ELSE {[NoForm EXCEPT !.query = q, !.citation_style = c] :
             q \in {<<SP, NL>>, TeamsQuery},
             c \in {"page_numbers", "none", "footnotes"}}

\* The most pages of a PDF.
MaxPages == 3

\* What the PDF readers, the DOCX reader and Image.open make of a content.
PageTexts == {<<SP, NL>>, <<"Alpha", NL>>}
PdfReads ==
    {[ok |-> FALSE, pages |-> <<>>]} \cup
    {[ok |-> TRUE, pages |-> p] :
        p \in UNION {[1..n -> PageTexts] : n \in 0..MaxPages}}

DocxReads ==
    {[ok |-> FALSE, paragraphs |-> <<>>, tables |-> <<>>]} \cup
    {[ok |-> TRUE, paragraphs |-> p, tables |-> t] :
        p \in {<<>>, <<<<SP>>>>, <<<<"Alpha", SP>>, <<>>, <<"Beta">>>>},
        t \in {<<>>, <<<< <<<<SP>>, <<>>>> >>>>,
               <<<< <<<<SP, "x", SP>>, <<"y">>>>, <<<<NL>>>> >>>>}}

\* The service's outcomes [calls, result] of extract_data_single_stage as
\* process_document sees them (the flow itself is FlowSpec's): without a
\* client the call raises; with one, the first completion fails or ends the
\* call, or a truncated one is retried.
ExtractOutcomes(has_client, req) ==
    IF ~has_client THEN {[calls |-> <<>>, result |-> Escapes]}
    ELSE {[calls |-> <<FirstBudget>>, result |-> ErrorResult(ExtractionFailed)]}
         \cup {[calls |-> <<FirstBudget>>, result |-> Conclude(req, t, x)] :
                  t \in BOOLEAN, x \in ServiceContents}
         \cup {[calls |-> <<FirstBudget, RetryBudget>>,
                result |-> Conclude(req, TRUE, x)] : x \in ServiceContents}

\* The outcomes of process_dynamic_query.
DynamicOutcomes(has_client, req) ==
    IF ~has_client THEN {[calls |-> <<>>, result |-> ErrorResult(NoApiKey)]}
    ELSE {[calls |-> <<DynamicBudget>>, result |-> ErrorResult(DynamicFailed)]}
         \cup {[calls |-> <<DynamicBudget>>,
                result |-> DynamicConclude(req, x)] : x \in ServiceContents}

\* /api/dynamic-query-advanced hands the query to
\* process_with_custom_options when an option differs from its default.
UsesCustomOptions(f) ==
    \/ f.force_summarization
    \/ f.max_summary_length # 200
    \/ f.citation_style # "page_numbers"

\* The outcomes of process_with_custom_options: those of the
\* process_dynamic_query it awaits.
CustomOutcomes(has_client, req) == DynamicOutcomes(has_client, req)

\* What analyze_query_intent returns: a mapping, which holds the key
\* "error" when the analysis failed.
IntentBudget == 500
Mapping(d) == [type |-> "mapping", data |-> d, msg |-> "", query |-> ""]
ErrorMapping(m) == Mapping(JObj(<<JKV("error", JStr(m))>>))

\* analyze_query_intent from the completion's content on.
IntentResult(x) ==
    IF ~Truthy(x) THEN ErrorMapping("Empty response from intent analysis")
    ELSE With(DqsParse(x.text),
              LAMBDA r : IF r.k = "raise"
                         THEN ErrorMapping("Intent analysis failed")
                         ELSE Mapping(r.v))

\* C21, mutant: analyze_query_intent without its check of the client.
AnalyzeOutcomesUnguarded(has_client) ==
    {[calls |-> <<IntentBudget>>,
      result |-> ErrorMapping("Intent analysis failed")]}

\* The outcomes of analyze_query_intent.
AnalyzeOutcomes(has_client) ==
    IF ~has_client
    THEN {[calls |-> <<>>, result |-> ErrorMapping("Service not available")]}
    ELSE {[calls |-> <<IntentBudget>>,
           result |-> ErrorMapping("Intent analysis failed")]}
         \cup {[calls |-> <<IntentBudget>>, result |-> IntentResult(x)] :
                  x \in ServiceContents}

---------------------------------------------------------------------------
(* The one DynamicQueryService of the application and the requests that    *)
(* share it.                                                               *)

\* The two settings process_with_custom_options writes, as __init__ leaves
\* them, and who wrote them.
DefaultSettings == [long_text_threshold |-> 500, citation_enabled |-> TRUE]
ByConstructor == [long_text_threshold |-> 0, citation_enabled |-> 0]

\* The queries: each is a sequence of words and blanks.
AllTeamsQuery == <<"Extract", SP, "all", SP, "teams">>
SummaryQuery == <<"Brief", SP, "summary">>

\* query.lower()
QueryLower(q) ==
    [i \in 1..Len(q) |->
        CASE q[i] = "Extract" -> "extract"
          [] q[i] = "Brief" -> "brief"
          [] OTHER -> q[i]]

FullTextIndicators ==
    {<<"extract", SP, "all">>, <<"list", SP, "all">>, <<"get", SP, "all">>,
     <<"find", SP, "all">>, <<"complete", SP, "list">>,
     <<"full", SP, "text">>, <<"entire">>, <<"whole">>}
SummaryIndicators ==
    {<<"summary">>, <<"overview">>, <<"brief">>, <<"main", SP, "points">>,
     <<"key", SP, "points">>, <<"important">>, <<"significant">>,
     <<"major">>, <<"primary">>}

\* The lengths _should_use_summarization compares the document with.
ShortDocument == 3000
LongDocument == 5000

\* _should_use_summarization of a text of len characters and a query; the
\* service's long_text_threshold is no part of it.
ShouldUseSummarization(len, q) ==
    IF len < ShortDocument THEN FALSE
    ELSE IF \E ind \in FullTextIndicators : Contains(QueryLower(q), ind)
    THEN FALSE
    ELSE IF \E ind \in SummaryIndicators : Contains(QueryLower(q), ind)
    THEN TRUE
    ELSE len > LongDocument

\* The prompts of a dynamic query, as the blocks they are built of.
DynamicSystemPrompt(use_summarization, enable_citations) ==
    <<"You are an expert data analyst">>
    \o (IF use_summarization THEN <<"SUMMARIZATION MODE ACTIVE">> ELSE <<>>)
    \o (IF enable_citations THEN <<"CITATION MODE ACTIVE">> ELSE <<>>)
    \o <<"EXAMPLE TRANSFORMATIONS", "RESPONSE FORMAT">>
DynamicUserPrompt(use_summarization, enable_citations) ==
    <<"DOCUMENT CONTENT", "USER QUERY", "Remember">>
    \o (IF use_summarization
        THEN <<"For long text content, provide brief summaries with key points">>
        ELSE <<>>)
    \o (IF enable_citations
        THEN <<"Include page references when available (look for [PAGE X] markers)">>
        ELSE <<>>)
    \o <<"Return the result as valid JSON">>

\* The text of the exceptions a completion call may raise.
ExceptionTexts ==
    {"Connection error.", "Error code: 401 - No auth credentials found"}

\* What the model endpoint may answer a request of the shared service.
Answers ==
    {[fail |-> TRUE, error |-> e, content |-> NoText] : e \in ExceptionTexts}
    \cup {[fail |-> FALSE, error |-> "", content |-> x] : x \in ServiceContents}

\* A result with what it reports about the two modes: the fields
\* summarization_used and citations_enabled of an AIExtractionResult.
QueryResult(res, use_summarization, enable_citations) ==
    [type |-> res.type, data |-> res.data, msg |-> res.msg,
     query |-> res.query,
     summarization_used |-> res.type = "ai" /\ use_summarization,
     citations_enabled |-> res.type = "ai" /\ enable_citations]
Unanswered == [status |-> 0, body |-> QueryResult(NoResult, FALSE, FALSE)]

\* A request as it arrives: the endpoint, the form, len(document_text).
NewRequest(ep, f, n) ==
    [endpoint |-> ep, form |-> f, doc |-> n, at |-> "start", fn |-> "",
     saved |-> DefaultSettings, saved_by |-> ByConstructor, sources |-> {},
     summarize |-> FALSE, citations |-> FALSE, marked |-> FALSE,
     system |-> <<>>, user |-> <<>>, raised |-> "", reply |-> Unanswered]

\* The service function the handler of a request awaits.
Dispatch(r) ==
    CASE r.endpoint = "analyze" -> "analyze"
      [] r.endpoint = "advanced" /\ UsesCustomOptions(r.form) -> "custom"
      [] OTHER -> "dynamic"

\* enable_summarization and enable_citations of the process_dynamic_query
\* call: the defaults on /api/dynamic-query, the form's flags on the
\* standard path of /api/dynamic-query-advanced, True and the citation
\* style on its custom path.
PassesSummarization(r) ==
    CASE Dispatch(r) = "custom" -> TRUE
      [] r.endpoint = "advanced" -> r.form.enable_summarization
      [] OTHER -> TRUE
PassesCitations(r) ==
    CASE Dispatch(r) = "custom" -> r.form.citation_style # "none"
      [] r.endpoint = "advanced" -> r.form.enable_citations
      [] OTHER -> TRUE

\* The settings process_with_custom_options writes before its await.
CustomSettings(r, current) ==
    [long_text_threshold |->
         IF r.form.force_summarization THEN 0
         ELSE current.long_text_threshold,
     citation_enabled |-> r.form.citation_style # "none"]

\* process_dynamic_query up to its await: the document is preprocessed,
\* the mode is chosen and the prompts are built.
Prepared(r) ==
    With(PreprocessDocument(r.doc, PassesCitations(r)), LAMBDA processed :
    With(/\ PassesSummarization(r)
         /\ ShouldUseSummarization(PiecesLen(processed),
                                   Strip(r.form.query)),
         LAMBDA use :
            [r EXCEPT !.summarize = use,
                      !.citations = PassesCitations(r),
                      !.marked = Contains(processed, <<Lit("[PAGE 1]\n")>>),
                      !.system = DynamicSystemPrompt(use, PassesCitations(r)),
                      !.user = DynamicUserPrompt(use, PassesCitations(r))]))

---------------------------------------------------------------------------
(* The state: the recovery parsers, one step per strategy, and the two     *)
(* request flows, one step per await.                                      *)

VARIABLES
    parser,     \* "dqs": DynamicQueryService, "orc": OpenRouterClient
    content,    \* the text the parser is called with
    embedded,   \* [fenced, J]: the JSON object a fenced text was built from
    pc,         \* "run" while strategies are tried, "done" afterwards
    step,       \* the position in the parser's order of strategies
    attempted,  \* the strategies tried so far, in order
    outcome,    \* what the call yields: Ret(value) or Raise
    mode,       \* "template": extract_data_single_stage,
                \* "dynamic": process_dynamic_query
    request,    \* [template, custom] of the call
    client,     \* self.client is set (an API key is configured)
    opc,        \* "start", "await1", "await2" (the retry), "done"
    first,      \* the first completion
    retry,      \* the retried completion
    xcontent,   \* extraction_content / response_content
    calls,      \* max_tokens of the completion calls made, in order
    parses,     \* the calls of _robust_json_parse: [src, text], in order
    rdata,      \* what the parse of the reasoning field yielded
    result,     \* what the call returns
    doc,        \* len(document_text) of a dynamic query
    cite,       \* enable_citations
    prompt,     \* the document text as the user prompt embeds it
    endpoint,   \* the route of an upload: "extract", "dynamic", "advanced"
    upload,     \* the uploaded file
    form,       \* the form fields that come with the file
    sniffer,    \* self.filetype_available
    upc,        \* the position of the upload's handler
    mime,       \* what detect_file_type returned
    decoders,   \* the decoders run on the file's content, in order
    reads,      \* what the libraries made of the content for the decoder
    text,       \* what the text extractor yielded: Ret(text) or Raise
    response,   \* the HTTP response: [status, body]
    settings,   \* long_text_threshold and citation_enabled of the one
                \* DynamicQueryService the requests share
    origin,     \* the request that wrote each of the two, 0: __init__
    inflight,   \* the requests the service is handling, each with the
                \* position of its handler
    document,   \* document_text of _preprocess_document_with_citations
    citing,     \* enable_citations of the call
    sections,   \* what _split_into_sections returned
    processed,  \* processed_doc
    page_map,   \* page_map
    tpc,        \* the position of the call: "start", "split", "done"
    stats,      \* processing_stats of the DocumentProcessor
    tally       \* the process_document calls so far, by what they returned

pvars == <<parser, content, embedded, pc, step, attempted, outcome>>
ovars == <<mode, request, client, opc, first, retry, xcontent, calls, parses,
           rdata, result>>
dvars == <<doc, cite, prompt>>
uvars == <<endpoint, upload, form, sniffer, upc, mime, decoders, reads,
           text, response>>
svars == <<settings, origin, inflight>>
tvars == <<document, citing, sections, processed, page_map, tpc>>
cvars == <<stats, tally>>
avars == <<svars, tvars, cvars>>
vars == <<pvars, ovars, dvars, uvars, avars>>

ParserIdle ==
    /\ parser = "idle"
    /\ content = <<>>
    /\ embedded = [fenced |-> FALSE, J |-> JLit("null")]
    /\ pc = "idle"
    /\ step = 0
    /\ attempted = <<>>
    /\ outcome = None

FlowIdle ==
    /\ mode = "idle"
    /\ request = [template |-> "", custom |-> ""]
    /\ client = FALSE
    /\ opc = "idle"
    /\ first = NoResponse
    /\ retry = NoResponse
    /\ xcontent = NoText
    /\ calls = <<>>
    /\ parses = <<>>
    /\ rdata = None
    /\ result = NoResult

(* No dynamic query has a document. *)
DocIdle ==
    /\ doc = 0
    /\ cite = FALSE
    /\ prompt = <<>>

(* No file has been uploaded. *)
UploadIdle ==
    /\ endpoint = ""
    /\ upload = NoUpload
    /\ form = NoForm
    /\ sniffer = FALSE
    /\ upc = "idle"
    /\ mime = ""
    /\ decoders = <<>>
    /\ reads = <<>>
    /\ text = NotExtracted
    /\ response = NoReply

(* The shared service handles no request. *)
ServiceIdle ==
    /\ settings = DefaultSettings
    /\ origin = ByConstructor
    /\ inflight = <<>>

(* No text is being preprocessed. *)
SectionIdle ==
    /\ document = <<>>
    /\ citing = FALSE
    /\ sections = <<>>
    /\ processed = <<>>
    /\ page_map = {}
    /\ tpc = "idle"

(* The document processor has processed nothing. *)
StatsIdle ==
    /\ stats = NoStats
    /\ tally = NoTally

Aside == ServiceIdle /\ SectionIdle /\ StatsIdle

Init ==
    /\ parser \in {"dqs", "orc"}
    /\ \E inp \in Inputs :
          /\ content = inp.text
          /\ embedded = [fenced |-> inp.fenced, J |-> inp.J]
    /\ pc = "run"
    /\ step = 1
    /\ attempted = <<>>
    /\ outcome = None
    /\ FlowIdle
    /\ DocIdle
    /\ UploadIdle
    /\ Aside

\* One strategy of DynamicQueryService._robust_json_parse: it returns, it
\* raises, or the next one is tried.
DqsAttempt ==
    /\ parser = "dqs"
    /\ pc = "run"
    /\ \E r \in {DqsStrategy(DqsOrder[step], content)} :
          /\ attempted' = Append(attempted, DqsOrder[step])
          /\ IF r.k = "none"
             THEN /\ step' = step + 1
                  /\ UNCHANGED <<pc, outcome>>
             ELSE /\ pc' = "done"
                  /\ outcome' = r
                  /\ UNCHANGED step
    /\ UNCHANGED <<parser, content, embedded, ovars, dvars, uvars>>
    /\ UNCHANGED avars

\* One strategy of OpenRouterClient._robust_json_parse.
OrcAttempt ==
    /\ parser = "orc"
    /\ pc = "run"
    /\ \E r \in {OrcStrategy(OrcOrder[step], content)} :
          /\ attempted' = Append(attempted, OrcOrder[step])
          /\ IF r.k = "none"
             THEN /\ step' = step + 1
                  /\ UNCHANGED <<pc, outcome>>
             ELSE /\ pc' = "done"
                  /\ outcome' = r
                  /\ UNCHANGED step
    /\ UNCHANGED <<parser, content, embedded, ovars, dvars, uvars>>
    /\ UNCHANGED avars

Next == DqsAttempt \/ OrcAttempt

Spec == Init /\ [][Next]_vars

---------------------------------------------------------------------------
(* The claims about the recovery parsers, checked under Spec.              *)

\* C1: DynamicQueryService._robust_json_parse is total: for every input it
\* returns a dict and never raises.
C1_DqsParseTotal ==
    (parser = "dqs" /\ pc = "done") => (outcome.k = "ret" /\ IsDict(outcome.v))

\* C2: whatever OpenRouterClient._robust_json_parse returns is a dict, also
\* for a text that is valid JSON but no object.
C2_OrcParseYieldsDict ==
    (parser = "orc" /\ pc = "done" /\ outcome.k = "ret") => IsDict(outcome.v)

\* C3: DynamicQueryService._robust_json_parse tries its strategies in the
\* order 1, 2, 3, 4, 5, 6; a strategy is tried only when every earlier one
\* yielded none; what is returned is a dict, the yield of the last strategy
\* tried; and the terminal error mapping is returned only after 1..5.
C3_OrderedChain ==
    parser = "dqs" =>
        /\ Len(attempted) <= 6
        /\ attempted = [i \in 1..Len(attempted) |-> i]
        /\ \A i \in 1..Len(attempted) :
              (i < Len(attempted) \/ pc = "run")
                  => DqsStrategy(i, content).k = "none"
        /\ pc = "done" =>
              /\ attempted # <<>>
              /\ outcome = DqsStrategy(Len(attempted), content)
              /\ outcome.k # "none"
              /\ outcome.k = "ret" => IsDict(outcome.v)
              /\ Len(attempted) = 6 => outcome = Ret(DqsFallback(content))

\* C3, witness: the fourth strategy returned after three yielded none.
C3_Witness ==
    /\ parser = "dqs"
    /\ pc = "done"
    /\ attempted = <<1, 2, 3, 4>>
    /\ outcome.k = "ret"

\* C4, as claimed: whenever strategy 1 succeeds, the result equals
\* json.loads(content.strip()) exactly.
C4_StrictParseExact ==
    (pc = "done" /\ attempted = <<1>> /\ outcome.k = "ret")
        => outcome.v = JsonLoads(Strip(content)).v

\* C4, amended: whenever strategy 1 succeeds, OpenRouterClient returns
\* json.loads(content.strip()) exactly, and DynamicQueryService returns it
\* exactly when it is a dict and {"data": value} otherwise.
C4_StrictParseExactOrWrapped ==
    (pc = "done" /\ attempted = <<1>> /\ outcome.k = "ret")
        => LET d == JsonLoads(Strip(content))
           IN /\ d.st = "ok"
              /\ outcome.v = IF parser = "dqs" /\ ~IsDict(d.v)
                             THEN JObj(<<JKV("data", d.v)>>)
                             ELSE d.v

\* C4, witness: strategy 1 of DynamicQueryService succeeded on a padded text
\* whose value is no dict.
C4_Witness ==
    /\ parser = "dqs"
    /\ pc = "done"
    /\ attempted = <<1>>
    /\ outcome.k = "ret"
    /\ Strip(content) # content
    /\ ~IsDict(JsonLoads(Strip(content)).v)

\* C5: a JSON object in a fenced code block behind prose is recovered: the
\* parser returns an object equal to it.
C5_FencedRoundTrip ==
    (pc = "done" /\ embedded.fenced)
        => (outcome.k = "ret" /\ JEq(outcome.v, embedded.J))

\* C6, as claimed: on the truncated text
\* {"teams": [{"name": "Spurs", "result": "lost"} the parser falls through
\* to the terminal strategy and returns a mapping with the key "error".
C6_TruncatedFallsThrough ==
    (parser = "dqs" /\ content = SpursText /\ pc = "done")
        => /\ Len(attempted) = 6
           /\ outcome.k = "ret"
           /\ HasKey(outcome.v, "error")

\* C6, amended: on that text strategies 1 and 2 yield none and strategy 3
\* returns the complete inner object {"name": "Spurs", "result": "lost"}:
\* the terminal strategy is not reached.
C6_TruncatedYieldsInnerObject ==
    (content = SpursText /\ pc = "done")
        => /\ attempted = <<1, 2, 3>>
           /\ outcome = Ret(Spurs)

\* C6, witness: DynamicQueryService's parser is done with that text.
C6_Witness ==
    /\ parser = "dqs"
    /\ content = SpursText
    /\ pc = "done"
    /\ ~HasKey(outcome.v, "error")

---------------------------------------------------------------------------
(* extract_data_single_stage and process_dynamic_query.                    *)

ParseOf(src, x) == [src |-> src, text |-> x.text]

FlowInit ==
    /\ ParserIdle
    /\ mode \in {"template", "dynamic"}
    /\ request \in (IF mode = "template" THEN Requests
                    ELSE {[template |-> "", custom |-> "Extract the teams"]})
    /\ client \in BOOLEAN
    /\ opc = "start"
    /\ first = NoResponse
    /\ retry = NoResponse
    /\ xcontent = NoText
    /\ calls = <<>>
    /\ parses = <<>>
    /\ rdata = None
    /\ result = NoResult
    /\ doc \in (IF mode = "dynamic" THEN DocLengths ELSE {0})
    /\ cite \in (IF mode = "dynamic" THEN BOOLEAN ELSE {FALSE})
    /\ prompt = <<>>
    /\ UploadIdle
    /\ Aside

\* The end of extract_data_single_stage with extraction_content = x.
Finish(truncated, x, parsed) ==
    /\ opc' = "done"
    /\ xcontent' = x
    /\ result' = Conclude(request, truncated, x)
    /\ parses' = IF ParsesContent(truncated, x)
                 THEN Append(parsed, ParseOf("content", x)) ELSE parsed

\* extract_data_single_stage up to its first await.
ExtractStart ==
    /\ mode = "template"
    /\ opc = "start"
    /\ IF client
       THEN /\ opc' = "await1"
            /\ calls' = Append(calls, FirstBudget)
            /\ UNCHANGED result
       ELSE /\ opc' = "done"
            /\ result' = Escapes
            /\ UNCHANGED calls
    /\ UNCHANGED <<pvars, dvars, uvars, mode, request, client, first, retry, xcontent, parses,
                   rdata>>
    /\ UNCHANGED avars

\* The first completion arrives: the reasoning field of a truncated one is
\* parsed, and the function ends or awaits the retry.
ExtractFirstCompletion ==
    /\ mode = "template"
    /\ opc = "await1"
    /\ \E resp \in FirstResponses :
          /\ first' = resp
          /\ IF resp.fail
             THEN /\ opc' = "done"
                  /\ result' = ErrorResult(ExtractionFailed)
                  /\ UNCHANGED <<xcontent, calls, parses, rdata>>
             ELSE IF resp.finish = "length" /\ Truthy(resp.reasoning)
             THEN \E r \in {OrcParse(resp.reasoning.text)} :
                     /\ rdata' = r
                     /\ IF ReasoningVerdict(r) = "retry"
                        THEN /\ opc' = "await2"
                             /\ calls' = Append(calls, RetryBudget)
                             /\ xcontent' = resp.content
                             /\ parses' = Append(parses,
                                              ParseOf("reasoning", resp.reasoning))
                             /\ UNCHANGED result
                        ELSE /\ Finish(TRUE, resp.content,
                                       Append(parses,
                                              ParseOf("reasoning", resp.reasoning)))
                             /\ UNCHANGED calls
             ELSE /\ Finish(resp.finish = "length", resp.content, parses)
                  /\ UNCHANGED <<calls, rdata>>
    /\ UNCHANGED <<pvars, dvars, uvars, mode, request, client, retry>>
    /\ UNCHANGED avars

\* C11, mutant: a retried completion that is truncated again is retried
\* again.
ExtractRetryAgain ==
    /\ mode = "template"
    /\ opc = "await2"
    /\ \E resp \in RetryResponses :
          /\ retry' = resp
          /\ IF ~resp.fail /\ resp.finish = "length" /\ Len(calls) < 3
             THEN /\ calls' = Append(calls, RetryBudget)
                  /\ UNCHANGED <<opc, xcontent, result, parses>>
             ELSE /\ Finish(TRUE, IF resp.fail THEN xcontent ELSE resp.content,
                            parses)
                  /\ UNCHANGED calls
    /\ UNCHANGED <<pvars, dvars, uvars, mode, request, client, first, rdata>>
    /\ UNCHANGED avars

\* The retried completion arrives, or the retry raises and the first
\* content stays.
ExtractRetryCompletion ==
    /\ mode = "template"
    /\ opc = "await2"
    /\ \E resp \in RetryResponses :
          /\ retry' = resp
          /\ Finish(TRUE, IF resp.fail THEN xcontent ELSE resp.content, parses)
    /\ UNCHANGED <<pvars, dvars, uvars, mode, request, client, first, calls, rdata>>
    /\ UNCHANGED avars

\* process_dynamic_query up to its await.
DynamicStart ==
    /\ mode = "dynamic"
    /\ opc = "start"
    /\ IF client
       THEN /\ opc' = "await1"
            /\ prompt' = EmbeddedDocument(PreprocessDocument(doc, cite))
            /\ calls' = Append(calls, DynamicBudget)
            /\ UNCHANGED result
       ELSE /\ opc' = "done"
            /\ result' = ErrorResult(NoApiKey)
            /\ UNCHANGED <<calls, prompt>>
    /\ UNCHANGED <<pvars, doc, cite, uvars, mode, request, client, first, retry, xcontent, parses,
                   rdata>>
    /\ UNCHANGED avars

\* The completion of process_dynamic_query arrives.
DynamicCompletion ==
    /\ mode = "dynamic"
    /\ opc = "await1"
    /\ \E resp \in DynamicResponses :
          /\ first' = resp
          /\ opc' = "done"
          /\ IF resp.fail
             THEN /\ result' = ErrorResult(DynamicFailed)
                  /\ UNCHANGED <<xcontent, parses>>
             ELSE /\ xcontent' = resp.content
                  /\ result' = DynamicConclude(request, resp.content)
                  /\ parses' = IF Truthy(resp.content)
                               THEN Append(parses, ParseOf("content", resp.content))
                               ELSE parses
    /\ UNCHANGED <<pvars, dvars, uvars, mode, request, client, retry, calls, rdata>>
    /\ UNCHANGED avars

FlowNext ==
    \/ ExtractStart
    \/ ExtractFirstCompletion
    \/ ExtractRetryCompletion
    \/ DynamicStart
    \/ DynamicCompletion

FlowSpec == FlowInit /\ [][FlowNext]_vars

---------------------------------------------------------------------------
(* The upload endpoints /api/extract, /api/dynamic-query and               *)
(* /api/dynamic-query-advanced, one step per stage of the handler; the     *)
(* call of the extraction service is one step, whose outcomes are those    *)
(* of the flows above.                                                     *)

UploadInit ==
    /\ ParserIdle
    /\ DocIdle
    /\ mode = "idle"
    /\ request = [template |-> "", custom |-> ""]
    /\ client \in BOOLEAN
    /\ opc = "idle"
    /\ first = NoResponse
    /\ retry = NoResponse
    /\ xcontent = NoText
    /\ calls = <<>>
    /\ parses = <<>>
    /\ rdata = None
    /\ result = NoResult
    /\ endpoint \in {"extract", "dynamic", "advanced", "analyze"}
    /\ form \in Forms(endpoint)
    /\ upload \in (IF endpoint = "analyze" THEN {NoUpload}
                   ELSE EndpointUploads)
    /\ sniffer \in (IF endpoint = "analyze" THEN {FALSE} ELSE BOOLEAN)
    /\ upc = "start"
    /\ mime = ""
    /\ decoders = <<>>
    /\ reads = <<>>
    /\ text = NotExtracted
    /\ response = NoReply
    /\ Aside

\* The handler ends with a response.
Respond(r) ==
    /\ upc' = "done"
    /\ response' = r

\* What the handlers make of an exception of the text extractor.
ExtractionError ==
    ErrorResult(CASE endpoint = "extract" -> "Text extraction failed"
                  [] endpoint = "dynamic" -> "Dynamic query processing failed"
                  [] OTHER -> "Advanced dynamic query processing failed")

\* What they make of a text that holds only whitespace.
NoTextError ==
    ErrorResult(IF endpoint = "extract" THEN "No text content found"
                ELSE "Could not extract text from document")

\* The checks at the head of the three handlers: the filename, the query,
\* the citation style, and the size attribute of the upload.
EndpointChecks ==
    /\ upc = "start"
    /\ IF endpoint # "analyze" /\ upload.name = NoName
       THEN Respond(HttpException(400, "No file provided"))
       ELSE IF endpoint # "extract" /\ Strip(form.query) = <<>>
       THEN Respond(HttpException(400, "Query cannot be empty"))
       ELSE IF endpoint = "analyze"
       THEN /\ upc' = "service"
            /\ UNCHANGED response
       ELSE IF /\ endpoint = "advanced"
               /\ form.citation_style \notin {"page_numbers", "sections", "none"}
       THEN Respond(HttpException(400, "Citation style must be 'page_numbers', 'sections', or 'none'"))
       ELSE IF SizeAttribute(upload) > EndpointMaxMb * MegaByte
       THEN Respond(HttpException(413, "File size exceeds 50MB limit"))
       ELSE /\ upc' = IF endpoint = "extract" THEN "validate" ELSE "detect"
            /\ UNCHANGED response
    /\ UNCHANGED <<pvars, ovars, dvars, endpoint, upload, form, sniffer, mime,
                   decoders, reads, text>>
    /\ UNCHANGED avars

\* validate_document, and what process_document makes of its verdict.
ValidateDocument ==
    /\ upc = "validate"
    /\ IF /\ FileSize(upload) <= MaxFileSizeMb * MegaByte
          /\ IsSupportedFileType(upload.name)
       THEN /\ upc' = "detect"
            /\ UNCHANGED response
       ELSE Respond(Returned(ErrorResult("File validation failed")))
    /\ UNCHANGED <<pvars, ovars, dvars, endpoint, upload, form, sniffer, mime,
                   decoders, reads, text>>
    /\ UNCHANGED avars

\* _extract_text_from_file up to the choice of the decoder.
DetectType ==
    /\ upc = "detect"
    /\ \E guess \in (IF sniffer THEN FiletypeGuess(upload) ELSE {""}) :
          /\ mime' = DetectFileType(upload, sniffer, guess)
          /\ IF SupportedTypes(mime') = ""
             THEN /\ text' = ValueError
                  /\ Respond(Returned(ExtractionError))
             ELSE /\ upc' = "decode"
                  /\ UNCHANGED <<text, response>>
    /\ UNCHANGED <<pvars, ovars, dvars, endpoint, upload, form, sniffer,
                   decoders, reads>>
    /\ UNCHANGED avars

\* What the libraries may make of a file for a decoder: the read of
\* PyPDF2, and that of pypdf when it is consulted; the plain-text decoder
\* reads the bytes itself.
LibraryReads(decoder) ==
    CASE decoder = "pdf" ->
             {<<a>> : a \in {r \in PdfReads : PdfTextContent(r.pages) # <<>>}}
             \cup {<<a, b>> : a \in {r \in PdfReads : PdfTextContent(r.pages) = <<>>},
                              b \in PdfReads}
      [] decoder = "docx" -> {<<r>> : r \in DocxReads}
      [] decoder = "txt" -> {<<>>}
      [] OTHER -> {<<[ok |-> o]>> : o \in BOOLEAN}

\* extractor(content)
Decode(decoder, f, read) ==
    CASE decoder = "pdf" -> ExtractTextFromPdf(read[1], read[Len(read)])
      [] decoder = "docx" -> ExtractTextFromDocx(read[1])
      [] decoder = "txt" -> ExtractTextFromTxt(Sample(f))
      [] OTHER -> ExtractTextFromImage(read[1].ok)

\* The decoder runs, and the handler checks the text.
RunDecoder ==
    /\ upc = "decode"
    /\ decoders' = Append(decoders, SupportedTypes(mime))
    /\ \E read \in LibraryReads(SupportedTypes(mime)) :
          /\ reads' = read
          /\ text' = Decode(SupportedTypes(mime), upload, read)
          /\ IF text'.k = "raise" THEN Respond(Returned(ExtractionError))
             ELSE IF Strip(text'.v) = <<>> THEN Respond(Returned(NoTextError))
             ELSE /\ upc' = "service"
                  /\ UNCHANGED response
    /\ UNCHANGED <<pvars, ovars, dvars, endpoint, upload, form, sniffer, mime>>
    /\ UNCHANGED avars

\* The request the handler makes of the form.
ServiceRequest ==
    IF endpoint = "extract"
    THEN [template |-> form.template, custom |-> form.custom]
    ELSE [template |-> "", custom |-> TextOf(Strip(form.query))]

\* The service function the handler awaits.
ServiceMode ==
    CASE endpoint = "extract" -> "template"
      [] endpoint = "analyze" -> "analyze"
      [] endpoint = "advanced" /\ UsesCustomOptions(form) -> "custom"
      [] OTHER -> "dynamic"

\* What the function may do.
ServiceOutcomes(m) ==
    CASE m = "template" -> ExtractOutcomes(client, ServiceRequest)
      [] m = "analyze" -> AnalyzeOutcomes(client)
      [] m = "custom" -> CustomOutcomes(client, ServiceRequest)
      [] OTHER -> DynamicOutcomes(client, ServiceRequest)

\* process_document's call of extract_data_single_stage, or the other
\* endpoints' call of process_dynamic_query, process_with_custom_options
\* or analyze_query_intent, and the handler's return; the mapping of
\* /api/analyze-query is validated as a Dict on its way out.
CallService ==
    /\ upc = "service"
    /\ mode' = ServiceMode
    /\ request' = ServiceRequest
    /\ \E o \in ServiceOutcomes(ServiceMode) :
          /\ calls' = o.calls
          /\ result' = o.result
          /\ Respond(IF o.result = Escapes
                     THEN Returned(ErrorResult("AI extraction failed"))
                     ELSE IF o.result.type = "mapping" /\ ~IsDict(o.result.data)
                     THEN HttpException(500, "An unexpected error occurred while processing your request")
                     ELSE Returned(o.result))
    /\ UNCHANGED <<pvars, dvars, client, opc, first, retry, xcontent, parses,
                   rdata, endpoint, upload, form, sniffer, mime, decoders,
                   reads, text>>
    /\ UNCHANGED avars

\* extract_text_from_file on its own: the dynamic-query handler past its
\* checks, with any upload that passes them.
ExtractInit ==
    /\ ParserIdle
    /\ FlowIdle
    /\ DocIdle
    /\ endpoint = "dynamic"
    /\ form = [NoForm EXCEPT !.query = TeamsQuery,
                             !.citation_style = "page_numbers"]
    /\ upload \in {u \in Uploads :
                      /\ u.name # NoName
                      /\ SizeAttribute(u) <= EndpointMaxMb * MegaByte}
    /\ sniffer \in BOOLEAN
    /\ upc = "detect"
    /\ mime = ""
    /\ decoders = <<>>
    /\ reads = <<>>
    /\ text = NotExtracted
    /\ response = NoReply
    /\ Aside

ExtractNext == DetectType \/ RunDecoder

ExtractSpec == ExtractInit /\ [][ExtractNext]_vars

UploadNext ==
    \/ EndpointChecks
    \/ ValidateDocument
    \/ DetectType
    \/ RunDecoder
    \/ CallService

UploadSpec == UploadInit /\ [][UploadNext]_vars

---------------------------------------------------------------------------
(* The handlers of /api/dynamic-query, /api/dynamic-query-advanced and     *)
(* /api/analyze-query from their call of the shared service on, one step   *)
(* per await: the handlers of several requests interleave at the await of  *)
(* the completion.                                                         *)

\* The forms of /api/dynamic-query-advanced.
AdvancedForms ==
    {[NoForm EXCEPT !.query = q, !.citation_style = c,
                    !.enable_summarization = s, !.enable_citations = e,
                    !.force_summarization = f, !.max_summary_length = m] :
        q \in {TeamsQuery, AllTeamsQuery, SummaryQuery},
        c \in {"page_numbers", "sections", "none"},
        s \in BOOLEAN, e \in BOOLEAN, f \in BOOLEAN, m \in {200, 100}}

\* The requests that are followed alone, and those followed together.
OptionRequests ==
    {NewRequest("advanced", f, n) : f \in AdvancedForms, n \in {1500, 4000, 6000}}
    \cup {NewRequest("dynamic", [NoForm EXCEPT !.query = TeamsQuery,
                                              !.citation_style = "page_numbers"],
                     6000),
          NewRequest("analyze", [NoForm EXCEPT !.query = TeamsQuery], 0)}
ConcurrentRequests ==
    {NewRequest("advanced",
                [NoForm EXCEPT !.query = TeamsQuery, !.citation_style = c,
                               !.force_summarization = f,
                               !.max_summary_length = 100],
                1500) : c \in {"page_numbers", "none"}, f \in BOOLEAN}
    \cup {NewRequest("dynamic", [NoForm EXCEPT !.query = TeamsQuery,
                                              !.citation_style = "page_numbers"],
                     1500),
          NewRequest("analyze", [NoForm EXCEPT !.query = TeamsQuery], 0)}
NumRequests == 2

ServiceRest ==
    /\ ParserIdle
    /\ DocIdle
    /\ UploadIdle
    /\ mode = "idle"
    /\ request = [template |-> "", custom |-> ""]
    /\ opc = "idle"
    /\ first = NoResponse
    /\ retry = NoResponse
    /\ xcontent = NoText
    /\ calls = <<>>
    /\ parses = <<>>
    /\ rdata = None
    /\ result = NoResult
    /\ settings = DefaultSettings
    /\ origin = ByConstructor
    /\ SectionIdle
    /\ StatsIdle

OptionsInit ==
    /\ ServiceRest
    /\ client \in BOOLEAN
    /\ inflight \in {<<r>> : r \in OptionRequests}

ConcurrentInit ==
    /\ ServiceRest
    /\ client = TRUE
    /\ inflight \in [1..NumRequests -> ConcurrentRequests]

\* What the handler returns for a request without an API key.
Unavailable(r) ==
    IF Dispatch(r) = "analyze" THEN ErrorMapping("Service not available")
    ELSE ErrorResult(NoApiKey)

\* The handler of a request up to the await of its completion:
\* process_with_custom_options saves the two settings and writes its own,
\* process_dynamic_query prepares the call.  Without a client the function
\* returns, and process_with_custom_options restores what it saved.
HandlerStart ==
    \E i \in DOMAIN inflight :
    \E r \in {inflight[i]} :
       /\ r.at = "start"
       /\ IF Dispatch(r) = "custom"
          THEN \E mine \in {[r EXCEPT !.fn = "custom",
                                      !.saved = settings,
                                      !.saved_by = origin,
                                      !.sources = {origin.long_text_threshold,
                                                   origin.citation_enabled}]} :
                  IF client
                  THEN /\ settings' = CustomSettings(r, settings)
                       /\ origin' = [long_text_threshold |->
                                         IF r.form.force_summarization THEN i
                                         ELSE origin.long_text_threshold,
                                     citation_enabled |-> i]
                       /\ inflight' = [inflight EXCEPT
                                          ![i] = [Prepared(mine) EXCEPT
                                                     !.at = "await"]]
                  ELSE /\ inflight' = [inflight EXCEPT
                                          ![i] = [mine EXCEPT
                                                     !.at = "done",
                                                     !.reply = Returned(QueryResult(Unavailable(r), FALSE, FALSE))]]
                       /\ UNCHANGED <<settings, origin>>
          ELSE /\ inflight' =
                     [inflight EXCEPT
                         ![i] = IF ~client
                                THEN [r EXCEPT !.fn = Dispatch(r),
                                               !.at = "done",
                                               !.reply = Returned(QueryResult(Unavailable(r), FALSE, FALSE))]
                                ELSE IF Dispatch(r) = "analyze"
                                THEN [r EXCEPT !.fn = "analyze", !.at = "await"]
                                ELSE [Prepared(r) EXCEPT !.fn = "dynamic",
                                                         !.at = "await"]]
               /\ UNCHANGED <<settings, origin>>
       /\ UNCHANGED <<pvars, ovars, dvars, uvars, tvars, cvars>>

\* What the service function returns when the completion call raised e.
Caught(fn, e) ==
    IF fn = "analyze" THEN ErrorMapping("Intent analysis failed: " \o e)
    ELSE ErrorResult("Dynamic query failed: " \o e)

\* What it returns for a completion with content x.
Answered(r, x) ==
    IF r.fn = "analyze" THEN IntentResult(x)
    ELSE DynamicConclude([template |-> "",
                          custom |-> TextOf(Strip(r.form.query))], x)

\* The handler's response: the result as the function returned it; the
\* mapping of /api/analyze-query is validated as a Dict on its way out.
Response(res, r) ==
    IF res.type = "mapping" /\ ~IsDict(res.data)
    THEN [status |-> 500,
          body |-> QueryResult(ErrorResult("An unexpected error occurred while processing your request"),
                               FALSE, FALSE)]
    ELSE Returned(QueryResult(res, r.summarize, r.citations))

\* The completion of a request arrives or its call raises, the function
\* returns, process_with_custom_options restores the settings it saved,
\* and the handler responds.
HandlerCompletion ==
    \E i \in DOMAIN inflight :
    \E r \in {inflight[i]} :
       /\ r.at = "await"
       /\ \E a \in Answers :
             inflight' =
                [inflight EXCEPT
                    ![i] = [r EXCEPT
                               !.at = "done",
                               !.raised = a.error,
                               !.reply = Response(IF a.fail
                                                  THEN Caught(r.fn, a.error)
                                                  ELSE Answered(r, a.content),
                                                  r)]]
       /\ IF r.fn = "custom"
          THEN /\ settings' = r.saved
               /\ origin' = r.saved_by
          ELSE UNCHANGED <<settings, origin>>
       /\ UNCHANGED <<pvars, ovars, dvars, uvars, tvars, cvars>>

ServiceNext == HandlerStart \/ HandlerCompletion

OptionsSpec == OptionsInit /\ [][ServiceNext]_vars

ConcurrentSpec == ConcurrentInit /\ [][ServiceNext]_vars

---------------------------------------------------------------------------
(* _split_into_sections and _preprocess_document_with_citations on a      *)
(* document, with and without citations.                                   *)

SectionInit ==
    /\ ParserIdle
    /\ FlowIdle
    /\ DocIdle
    /\ UploadIdle
    /\ ServiceIdle
    /\ StatsIdle
    /\ document \in Documents
    /\ citing \in BOOLEAN
    /\ sections = <<>>
    /\ processed = <<>>
    /\ page_map = {}
    /\ tpc = "start"

\* _split_into_sections(document_text)
SplitSections ==
    /\ tpc = "start"
    /\ sections' = SplitText(document)
    /\ tpc' = "split"
    /\ UNCHANGED <<pvars, ovars, dvars, uvars, svars, cvars, document, citing,
                   processed, page_map>>

\* _preprocess_document_with_citations with citations, from the sections
\* on: the markers, the join, the truncation and the page map.
MarkSections ==
    /\ tpc = "split"
    /\ citing
    /\ processed' = ProcessedDoc(sections)
    /\ page_map' = PageMap(sections)
    /\ tpc' = "done"
    /\ UNCHANGED <<pvars, ovars, dvars, uvars, svars, cvars, document, citing,
                   sections>>

\* _preprocess_document_with_citations without citations: the text as it
\* is and an empty page map.
ReturnUnmarked ==
    /\ tpc = "start"
    /\ ~citing
    /\ processed' = document
    /\ page_map' = {}
    /\ tpc' = "done"
    /\ UNCHANGED <<pvars, ovars, dvars, uvars, svars, cvars, document, citing,
                   sections>>

SectionNext == SplitSections \/ MarkSections \/ ReturnUnmarked

SectionSpec == SectionInit /\ [][SectionNext]_vars

---------------------------------------------------------------------------
(* process_document call after call on one DocumentProcessor, each call    *)
(* one step, with the statistics the processor keeps.  The handler of the  *)
(* outermost try block is not taken: validate_document catches what it     *)
(* raises, and the other statements of the block have handlers of their    *)
(* own.                                                                    *)

\* The calls that are followed.
MaxCalls == 3
StatsUploads ==
    {Named("notes", ".txt", <<"a", SP>>),
     Named("notes", ".txt", <<SP, NL>>),
     Named("data", ".csv", <<"a", SP>>),
     Named("scan", ".png", PngSig)}

\* _update_processing_stats(processing_time, success), without the times.
UpdateProcessingStats(s, success) ==
    [s EXCEPT !.documents_processed = @ + 1,
              !.successful_extractions = IF success THEN @ + 1 ELSE @,
              !.failed_extractions = IF success THEN @ ELSE @ + 1]

\* What _extract_text_from_file may make of a file:
\* [mime, decoders, reads, text].
TextOutcomes(f, available) ==
    UNION {With(DetectFileType(f, available, guess), LAMBDA m :
               IF SupportedTypes(m) = ""
               THEN {[mime |-> m, decoders |-> <<>>, reads |-> <<>>,
                      text |-> ValueError]}
               ELSE {[mime |-> m, decoders |-> <<SupportedTypes(m)>>,
                      reads |-> read,
                      text |-> Decode(SupportedTypes(m), f, read)] :
                        read \in LibraryReads(SupportedTypes(m))}) :
           guess \in (IF available THEN FiletypeGuess(f) ELSE {""})}

\* The statistics after a call that returned res: updated with success when
\* extract_data_single_stage returned, whatever it returned, and left as
\* they are when the call returned before or the extraction raised.
Counted(s, extracted, res) ==
    IF extracted THEN UpdateProcessingStats(s, TRUE) ELSE s

\* A call that returned res.
Tallied(t, res) ==
    [t EXCEPT !.calls = @ + 1,
              !.results = IF res.type \in {"template", "ai"} THEN @ + 1 ELSE @,
              !.errors = IF res.type = "error" THEN @ + 1 ELSE @]

StatsInit ==
    /\ ParserIdle
    /\ DocIdle
    /\ ServiceIdle
    /\ SectionIdle
    /\ StatsIdle
    /\ mode = "idle"
    /\ request = [template |-> "", custom |-> ""]
    /\ client \in BOOLEAN
    /\ opc = "idle"
    /\ first = NoResponse
    /\ retry = NoResponse
    /\ xcontent = NoText
    /\ calls = <<>>
    /\ parses = <<>>
    /\ rdata = None
    /\ result = NoResult
    /\ endpoint = "extract"
    /\ form \in Forms("extract")
    /\ upload = NoUpload
    /\ sniffer \in BOOLEAN
    /\ upc = "idle"
    /\ mime = ""
    /\ decoders = <<>>
    /\ reads = <<>>
    /\ text = NotExtracted
    /\ response = NoReply

\* The call returns res; extracted: extract_data_single_stage returned.
Return(res, extracted) ==
    /\ response' = Returned(res)
    /\ stats' = Counted(stats, extracted, res)
    /\ tally' = Tallied(tally, res)

\* process_document(file, template, custom_prompt)
ProcessDocument ==
    /\ tally.calls < MaxCalls
    /\ mode' = "template"
    /\ request' = ServiceRequest
    /\ \E f \in StatsUploads :
          /\ upload' = f
          /\ IF ~(/\ FileSize(f) <= MaxFileSizeMb * MegaByte
                  /\ IsSupportedFileType(f.name))
             THEN /\ Return(ErrorResult("File validation failed"), FALSE)
                  /\ mime' = ""
                  /\ decoders' = <<>>
                  /\ reads' = <<>>
                  /\ text' = NotExtracted
                  /\ calls' = <<>>
                  /\ result' = NoResult
             ELSE \E x \in TextOutcomes(f, sniffer) :
                     /\ mime' = x.mime
                     /\ decoders' = x.decoders
                     /\ reads' = x.reads
                     /\ text' = x.text
                     /\ IF x.text.k = "raise"
                        THEN /\ Return(ErrorResult("Text extraction failed"), FALSE)
                             /\ calls' = <<>>
                             /\ result' = NoResult
                        ELSE IF Strip(x.text.v) = <<>>
                        THEN /\ Return(ErrorResult("No text content found"), FALSE)
                             /\ calls' = <<>>
                             /\ result' = NoResult
                        ELSE \E o \in ExtractOutcomes(client, ServiceRequest) :
                                /\ calls' = o.calls
                                /\ result' = o.result
                                /\ IF o.result = Escapes
                                   THEN Return(ErrorResult("AI extraction failed"), FALSE)
                                   ELSE Return(o.result, TRUE)
    /\ UNCHANGED <<pvars, dvars, svars, tvars, client, opc, first, retry,
                   xcontent, parses, rdata, endpoint, form, sniffer, upc>>

StatsNext == ProcessDocument

StatsSpec == StatsInit /\ [][StatsNext]_vars

---------------------------------------------------------------------------
(* The claims about the two request flows, checked under FlowSpec.         *)

\* C7, as claimed: in both modes, when the parser exhausts its strategies
\* on the model's non-empty content, the request resolves to a
\* TemplateResult or AIResult that carries the fallback mapping.
C7_DegradationNeverError ==
    (opc = "done" /\ parses # <<>> /\ parses[Len(parses)].src = "content")
        => LET c == parses[Len(parses)].text
           IN /\ (mode = "template"
                     /\ \A n \in 1..5 : OrcStrategy(n, c).k = "none")
                    => /\ result.type \in {"template", "ai"}
                       /\ result.data = OrcFallback(c)
              /\ (mode = "dynamic"
                     /\ \A n \in 1..5 : DqsStrategy(n, c).k = "none")
                    => /\ result.type \in {"template", "ai"}
                       /\ result.data = DqsFallback(c)

\* C7, amended: when the parser exhausts its strategies on the model's
\* non-empty content, extract_data_single_stage resolves to a TemplateResult
\* (a template of the defaults) or an AIResult (otherwise) that carries the
\* fallback mapping, and process_dynamic_query resolves to an ErrorResult
\* with the message of the fallback mapping.
C7_DegradationByMode ==
    (opc = "done" /\ parses # <<>> /\ parses[Len(parses)].src = "content")
        => LET c == parses[Len(parses)].text
           IN /\ (mode = "template"
                     /\ \A n \in 1..5 : OrcStrategy(n, c).k = "none")
                    => /\ result.type = IF request.template \in DefaultTemplates
                                        THEN "template" ELSE "ai"
                       /\ result.data = OrcFallback(c)
              /\ (mode = "dynamic"
                     /\ \A n \in 1..5 : DqsStrategy(n, c).k = "none")
                    => result = ErrorResult(
                           "Could not parse AI response into valid JSON structure")

\* C7, witness: process_dynamic_query is done with a content no strategy
\* could parse.
C7_Witness ==
    /\ mode = "dynamic"
    /\ opc = "done"
    /\ xcontent = Text(<<"x">>)
    /\ parses = <<[src |-> "content", text |-> <<"x">>]>>
    /\ result.type = "error"

\* C8: when the first completion of extract_data_single_stage ends with
\* finish_reason 'length' and has no reasoning field, exactly one retry with
\* the larger budget is made before the result.
C8_RetryWithoutReasoning ==
    (mode = "template" /\ opc = "done" /\ ~first.fail
         /\ first.finish = "length" /\ first.reasoning.nil)
        => calls = <<FirstBudget, RetryBudget>>

\* C9: when the completion is truncated and the reasoning field parses to
\* a mapping without the key extraction_error, the result carries that
\* mapping, whatever the content is.
C9_ReasoningDataCarried ==
    (mode = "template" /\ opc = "done" /\ ~first.fail
         /\ first.finish = "length" /\ Truthy(first.reasoning)
         /\ rdata.k = "ret" /\ IsDict(rdata.v)
         /\ ~HasKey(rdata.v, "extraction_error"))
        => /\ result.type \in {"template", "ai"}
           /\ result.data = rdata.v

\* C10: when the completion was truncated and the content is empty or
\* whitespace after the reasoning/retry step, the result is the truncation
\* ErrorResult, and the parser was never called on the content.
C10_TruncatedEmptyIsError ==
    (mode = "template" /\ opc = "done" /\ ~first.fail
         /\ first.finish = "length"
         /\ (xcontent.nil \/ Strip(xcontent.text) = <<>>))
        => /\ result = ErrorResult(TruncatedMsg)
           /\ \A i \in 1..Len(parses) : parses[i].src # "content"

\* C10, witness: the retry was made and its content is whitespace.
C10_Witness ==
    /\ mode = "template"
    /\ opc = "done"
    /\ calls = <<FirstBudget, RetryBudget>>
    /\ ~retry.fail
    /\ xcontent = Text(<<NL, SP>>)
    /\ result = ErrorResult(TruncatedMsg)

\* C11: extract_data_single_stage calls the model endpoint at most twice:
\* the first call with the first budget, and at most one retry with the
\* larger budget, which is started only after the first completion has
\* arrived (truncated), while no other call is awaited, and which is never
\* followed by a further call, also when the retried completion is truncated.
C11_AtMostOneRetry ==
    mode = "template" =>
        /\ calls \in {<<>>, <<FirstBudget>>, <<FirstBudget, RetryBudget>>}
        /\ opc = "start" => calls = <<>>
        /\ opc = "await1" => (calls = <<FirstBudget>> /\ first = NoResponse)
        /\ opc = "await2" => (calls = <<FirstBudget, RetryBudget>>
                                /\ retry = NoResponse)
        /\ Len(calls) = 2 => /\ first # NoResponse
                             /\ ~first.fail
                             /\ first.finish = "length"

\* C11, witness: the retried completion was truncated again, and the call
\* is over after two calls.
C11_Witness ==
    /\ mode = "template"
    /\ opc = "done"
    /\ calls = <<FirstBudget, RetryBudget>>
    /\ ~retry.fail
    /\ retry.finish = "length"
    /\ retry.content = Text(SubSeq(Dumps(EmailsObject), 1, 8))

\* C17: a completed extraction of extract_data_single_stage is a
\* TemplateResult exactly when the template is one of the default
\* templates, whatever the custom prompt is; otherwise it is an AIResult
\* whose query is the custom prompt, or the default goal without one.
C17_VariantByTemplate ==
    (mode = "template" /\ opc = "done" /\ result.type \in {"template", "ai"})
        => /\ result.type = "template" <=> request.template \in DefaultTemplates
           /\ result.type = "ai" =>
                 result.query = IF request.custom # "" THEN request.custom
                                ELSE DefaultGoal

\* C17, witness: a TemplateResult for a default template that came with a
\* custom prompt.
C17_Witness ==
    /\ mode = "template"
    /\ opc = "done"
    /\ request = [template |-> "emails", custom |-> "Extract the teams"]
    /\ result.type = "template"
    /\ result.data = EmailsObject

\* C18: a TemplateResult returned by extract_data_single_stage has no
\* top-level field named "error" or "ai_extraction_result".
C18_TemplateResultDistinct ==
    (mode = "template" /\ opc = "done" /\ result.type = "template")
        => /\ ~HasKey(result.data, "error")
           /\ ~HasKey(result.data, "ai_extraction_result")

\* C19: every field of a TemplateResult returned by
\* extract_data_single_stage is an array.
C19_TemplateFieldsAreArrays ==
    (mode = "template" /\ opc = "done" /\ result.type = "template")
        => \A i \in 1..Len(result.data.kids) :
              result.data.kids[i].kids[1].t = "arr"

(* C20: in dynamic-query mode the document text that the user prompt      *)
(* embeds is the whole document when the document has at most 24000       *)
(* characters (6000 token-equivalents), with no truncation marker, and is *)
(* 24000 characters followed by exactly one truncation marker when the    *)
(* document is longer, with and without citations.                        *)
C20_DocumentBudget ==
    (mode = "dynamic" /\ client /\ opc # "start") =>
        LET marks == {i \in 1..Len(prompt) :
                         prompt[i].s \in {DocTruncated, PromptTruncated}}
            kept == {i \in 1..Len(prompt) : prompt[i].s = "doc"}
        IN IF doc <= 24000
           THEN /\ marks = {}
                /\ \A i \in kept :
                      /\ prompt[i].n > 0
                      /\ prompt[i].off =
                            (IF \E j \in kept : j < i
                             THEN LET j == CHOOSE j \in kept :
                                          /\ j < i
                                          /\ \A h \in kept : h < i => h <= j
                                  IN prompt[j].off + prompt[j].n
                             ELSE 0)
                /\ \E i \in kept : prompt[i].off + prompt[i].n = doc
           ELSE /\ marks = {Len(prompt)}
                /\ PiecesSum(prompt, 1, Len(prompt) - 1) = 24000

---------------------------------------------------------------------------
(* The claims about the upload endpoints, checked under UploadSpec, and    *)
(* those about the text extractor, checked under ExtractSpec.              *)

\* C12: on every upload endpoint a file above the 50 MB ceiling, or one
\* whose type is not a supported one, never has a decoder run on it and
\* never leads to a call of the model endpoint, and is answered with an
\* error response, also when the size attribute is not populated.
C12_LimitsBeforeExtraction ==
    (\/ FileSize(upload) > 50 * 1024 * 1024
     \/ Lower(upload.name.ext)
            \notin {".pdf", ".docx", ".txt", ".png", ".jpg", ".jpeg"})
        => /\ decoders = <<>>
           /\ calls = <<>>
           /\ upc = "done"
                 => (response.status >= 400 \/ response.body.type = "error")

\* C13: every validation failure is answered with a 4xx status: an
\* oversized file and an unsupported file format on all three endpoints, an
\* empty or whitespace-only query on the two that take a query.
C13_ValidationFailuresAre4xx ==
    (/\ upc = "done"
     /\ \/ FileSize(upload) > 50 * 1024 * 1024
        \/ Lower(upload.name.ext)
               \notin {".pdf", ".docx", ".txt", ".png", ".jpg", ".jpeg"}
        \/ endpoint # "extract" /\ \A i \in 1..Len(form.query) :
                                      form.query[i] \in {SP, NL})
        => response.status \in 400..499

\* C14: whatever the filename and whether or not the content-sniffing
\* library is available, a content that starts with a known signature is
\* detected as the signature's format.
C14_ContentPrecedesExtension ==
    mime # "" =>
        LET Starts(sig) ==
                /\ Len(upload.head) >= Len(sig)
                /\ \A i \in 1..Len(sig) : upload.head[i] = sig[i]
        IN /\ Starts(<<"%", "P", "D", "F">>) => mime = "application/pdf"
           /\ Starts(<<"P", "K", "\\x03", "\\x04", "w", "o", "r", "d", "/">>)
                 => mime = DocxMime
           /\ Starts(<<"\\x89", "P", "N", "G">>) => mime = "image/png"
           /\ Starts(<<"\\xff", "\\xd8", "\\xff">>) => mime = "image/jpeg"

\* C15: the text extractor never succeeds with empty text: whichever of
\* the four decoders ran, it raised or it returned a text with at least
\* one character that is no whitespace.
C15_NeverEmptySuccess ==
    text.k = "ret" =>
        /\ decoders # <<>>
        /\ decoders[1] \in {"pdf", "docx", "txt", "image"}
        /\ \E i \in 1..Len(text.v) : ~IsSpace(text.v[i])

\* C15, witness: the plain-text decoder returned what the second encoding
\* made of bytes that the first decodes to whitespace.
C15_Witness ==
    /\ decoders = <<"txt">>
    /\ text.k = "ret"
    /\ upload.head = <<SP, SP>>
    /\ upload.pad = 0

\* The pages that _extract_text_from_pdf took its text from.
PagesRead == reads[Len(reads)].pages

\* The positions of the retained pages: those that hold more than
\* whitespace.
Retained ==
    {i \in 1..Len(PagesRead) :
        \E j \in 1..Len(PagesRead[i]) : PagesRead[i][j] \notin {SP, NL}}

\* The markers of the extracted text, in order.
MarkersOf(t) ==
    SelectSeq(t, LAMBDA a : \E n \in 1..MaxPages : a = PageMarker(n))

\* C16, as claimed: the extracted text of a PDF holds one marker per
\* retained page, in ascending order, numbered from 1 on.
C16_MarkersFromOne ==
    (decoders = <<"pdf">> /\ text.k = "ret")
        => MarkersOf(text.v) = [k \in 1..Cardinality(Retained) |-> PageMarker(k)]

\* C16, amended: the extracted text of a PDF is the texts of the retained
\* pages in ascending page order, each behind one marker on a line of its
\* own, and the number of a marker is the position of its page in the PDF:
\* the numbers start at 1 only when the first page is retained.
C16_MarkersByPosition ==
    (decoders = <<"pdf">> /\ text.k = "ret")
        => LET Nth(k) == CHOOSE i \in Retained :
                             Cardinality({j \in Retained : j <= i}) = k
           IN /\ Retained # {}
              /\ Len(MarkersOf(text.v)) = Cardinality(Retained)
              /\ \A k \in 1..Len(MarkersOf(text.v)) :
                    MarkersOf(text.v)[k] = PageMarker(Nth(k))
              /\ text.v = JoinTexts([k \in 1..Cardinality(Retained) |->
                                        <<PageMarker(Nth(k)), NL>>
                                            \o PagesRead[Nth(k)]],
                                    <<NL, NL>>)

\* C16, witness: a PDF whose first page holds only whitespace.
C16_Witness ==
    /\ decoders = <<"pdf">>
    /\ text.k = "ret"
    /\ 1 \notin Retained
    /\ 2 \in Retained

---------------------------------------------------------------------------
(* The claims about a service without an API key, checked under            *)
(* UploadSpec.                                                             *)

\* C21: with no API key configured, the AI step of process_document,
\* process_dynamic_query, process_with_custom_options and
\* analyze_query_intent end in an error result without one call of the
\* model endpoint, and the text extractor has returned the document's text
\* before the query functions are reached.
C21_NoKeyNoCalls ==
    ~client =>
        /\ calls = <<>>
        /\ (upc = "done" /\ mode # "idle") =>
              /\ response.status = 200
              /\ \/ response.body.type = "error"
                 \/ /\ response.body.type = "mapping"
                    /\ HasKey(response.body.data, "error")
        /\ mode \in {"template", "dynamic", "custom"} =>
              /\ text.k = "ret"
              /\ \E i \in 1..Len(text.v) : text.v[i] \notin {SP, NL}

C21_Witness ==
    /\ ~client
    /\ upc = "done"
    /\ mode = "custom"
    /\ text.k = "ret"
    /\ response = Returned(ErrorResult(NoApiKey))

---------------------------------------------------------------------------
(* The claims about the shared DynamicQueryService: those about requests   *)
(* that interleave are checked under ConcurrentSpec, those about the       *)
(* options of one request under OptionsSpec.                               *)

\* C22: whatever the interleaving of the requests at their awaits, no
\* request reads a long_text_threshold or citation_enabled that another
\* request wrote, and once every request has finished the two settings
\* have the values __init__ gave them.
C22_NoSharedState ==
    /\ \A i \in DOMAIN inflight : inflight[i].sources \subseteq {0, i}
    /\ (\A i \in DOMAIN inflight : inflight[i].at = "done")
          => settings = DefaultSettings

\* C23: the response to a request whose completion call raised is the same
\* whatever the text of the exception: two requests of one endpoint that
\* both met an exception are answered alike.
C23_OpaqueErrors ==
    \A i, j \in DOMAIN inflight :
        (/\ inflight[i].at = "done" /\ inflight[i].raised # ""
         /\ inflight[j].at = "done" /\ inflight[j].raised # ""
         /\ inflight[i].endpoint = inflight[j].endpoint)
            => inflight[i].reply = inflight[j].reply

\* C25: a request that process_with_custom_options serves with
\* force_summarization set reports summarization_used = true in its
\* AIExtractionResult, whatever the document and the query.
C25_ForcedSummarization ==
    \A i \in DOMAIN inflight :
        (/\ inflight[i].fn = "custom"
         /\ inflight[i].form.force_summarization
         /\ inflight[i].at = "done"
         /\ inflight[i].reply.body.type = "ai")
            => inflight[i].reply.body.summarization_used

\* C26: a request of /api/dynamic-query-advanced with enable_citations
\* false has a document without [PAGE N] markers and prompts without
\* citation instructions, and its AIExtractionResult reports
\* citations_enabled = false, whatever the other options.
C26_CitationToggle ==
    \A i \in DOMAIN inflight :
        (/\ inflight[i].endpoint = "advanced"
         /\ ~inflight[i].form.enable_citations
         /\ inflight[i].at \in {"await", "done"}
         /\ client)
            => /\ ~inflight[i].marked
               /\ ~Contains(inflight[i].system, <<"CITATION MODE ACTIVE">>)
               /\ ~Contains(inflight[i].user,
                            <<"Include page references when available (look for [PAGE X] markers)">>)
               /\ ~inflight[i].reply.body.citations_enabled

---------------------------------------------------------------------------
(* The claim about the mappings process_dynamic_query recovers, checked    *)
(* under FlowSpec.                                                         *)

\* C27: when one of the strategies 1 to 5 recovers a mapping from the
\* model's non-empty content, process_dynamic_query returns an
\* AIExtractionResult with status "success" whose data is that mapping,
\* whatever its keys.
C27_RecoveredMappingIsSuccess ==
    (/\ mode = "dynamic"
     /\ opc = "done"
     /\ parses # <<>>
     /\ parses[Len(parses)].src = "content")
        => LET c == parses[Len(parses)].text
           IN (/\ \E n \in 1..5 : DqsStrategy(n, c).k = "ret"
               /\ DqsParse(c).k = "ret"
               /\ IsDict(DqsParse(c).v))
                 => /\ result.type = "ai"
                    /\ result.msg = "success"
                    /\ result.data = DqsParse(c).v

---------------------------------------------------------------------------
(* The claims about the sectioning of a document, checked under            *)
(* SectionSpec.                                                            *)

\* A text with its neighbouring pieces of one source joined, so that two
\* texts of the same characters are equal.
RECURSIVE Joined(_, _, _)
Joined(t, i, acc) ==
    IF i > Len(t) THEN acc
    ELSE IF t[i].n = 0 THEN Joined(t, i + 1, acc)
    ELSE IF /\ acc # <<>>
            /\ acc[Len(acc)].s = t[i].s
            /\ acc[Len(acc)].off + acc[Len(acc)].n = t[i].off
    THEN Joined(t, i + 1,
                [acc EXCEPT ![Len(acc)].n = @ + t[i].n])
    ELSE Joined(t, i + 1, Append(acc, t[i]))

\* The sections one after the other.
RECURSIVE Concatenated(_, _)
Concatenated(ss, i) ==
    IF i > Len(ss) THEN <<>> ELSE ss[i] \o Concatenated(ss, i + 1)

\* No pattern splits the document into more than one section with content.
Unstructured ==
    \A p \in 1..5 :
        Cardinality({k \in DOMAIN RegexSplit(p, document) :
                        \E i \in DOMAIN RegexSplit(p, document)[k] :
                            RegexSplit(p, document)[k][i].s \notin {NL, SP}})
            <= 1

\* The sections are chunks of at most 1000 characters that make up the
\* document.
ChunkedWhole ==
    /\ \A k \in DOMAIN sections : PiecesLen(sections[k]) <= 1000
    /\ Joined(Concatenated(sections, 1), 1, <<>>) = Joined(document, 1, <<>>)

\* The page map has the entry page_k: k for each of the n sections, and no
\* other.
PagesUpTo(n) ==
    /\ page_map # {}
    /\ page_map = {[key |-> "page_" \o ToString(k), page |-> k] : k \in 1..n}

\* C24, as claimed: a document of more than 2000 characters that no pattern
\* splits is cut into chunks of at most 1000 characters that make up the
\* document, and _preprocess_document_with_citations returns a page map
\* that is not empty and has one entry page_k: k per chunk.
C24_ChunksAndPages ==
    (PiecesLen(document) > 2000 /\ Unstructured) =>
        /\ tpc = "split" => ChunkedWhole
        /\ tpc = "done" =>
              PagesUpTo(CeilDiv(PiecesLen(document),
                                PiecesLen(document)
                                    \div CeilDiv(PiecesLen(document), 1000)))

\* C24, amended: the page map is the one claimed when citations are
\* enabled.
C24_ChunksAndPagesWhenCiting ==
    (PiecesLen(document) > 2000 /\ Unstructured) =>
        /\ tpc \in {"split", "done"} /\ sections # <<>> => ChunkedWhole
        /\ (tpc = "done" /\ citing) => PagesUpTo(Len(sections))

C24_Witness ==
    /\ tpc = "done"
    /\ citing
    /\ document = Body(0, 2999)
    /\ Len(sections) = 4
    /\ PiecesLen(sections[4]) = 2
    /\ Cardinality(page_map) = 4

\* C28: for every key page_N of the page map the processed text holds the
\* opening marker [PAGE N] and the closing marker [/PAGE N].
C28_MapAgreesWithText ==
    tpc = "done" =>
        \A e \in page_map :
            /\ \E i \in DOMAIN processed :
                  /\ processed[i].s = "[PAGE " \o ToString(e.page) \o "]\n"
                  /\ processed[i].off = 0
                  /\ processed[i].n >= Len(processed[i].s) - 1
            /\ \E i \in DOMAIN processed :
                  /\ processed[i].s = "\n[/PAGE " \o ToString(e.page) \o "]"
                  /\ processed[i].off = 0
                  /\ processed[i].n = Len(processed[i].s)

\* The pieces of a text that are neither blank nor a marker line.
Retains(p) ==
    /\ p.s \notin {NL, SP, "\n\n"}
    /\ \A k \in 1..30 : p.s \notin {"[PAGE " \o ToString(k) \o "]\n",
                                    "\n[/PAGE " \o ToString(k) \o "]"}

\* C29: with citations enabled and the marked-up text within the budget,
\* the processed text without its marker lines holds every non-whitespace
\* character of the document, in the document's order.
C29_NoContentLost ==
    (/\ tpc = "done"
     /\ citing
     /\ \A i \in DOMAIN processed : processed[i].s # DocTruncated)
        => Joined(SelectSeq(processed, Retains), 1, <<>>)
               = Joined(SelectSeq(document, Retains), 1, <<>>)

---------------------------------------------------------------------------
(* The claim about the statistics of the document processor, checked       *)
(* under StatsSpec.                                                        *)

\* C30: after any sequence of process_document calls,
\* successful_extractions is the number of calls that returned a
\* TemplateExtractionResult or an AIExtractionResult, failed_extractions
\* the number of calls that returned an ErrorResult, and
\* documents_processed the number of calls.
C30_CountersMatchOutcomes ==
    /\ stats.successful_extractions = tally.results
    /\ stats.failed_extractions = tally.errors
    /\ stats.documents_processed = tally.calls

=============================================================================
